---- MODULE Spec2Model ----
\* Lane addressing of rts::vec (src/src/rts/vec.hpp): the bit-packed mask
\* vector vec<bool,A>, the generic vec<T,A>, and the element pointer and
\* element reference proxies detail::const_vptr, detail::vptr, detail::vref.
\*
\* A std::uint32_t word is modelled as the set of its set bit positions
\* (a subset of 0..31), an unsigned long as a subset of 0..63; |, & and ^
\* are union, intersection and symmetric difference.  A pointer to a
\* vector is the index of the vector in its array, so that pointer
\* arithmetic on it is counted in whole vectors as in C++.
EXTENDS Integers, Sequences, FiniteSets, TLC

VARIABLES
  ndebug,   \* TRUE: built with NDEBUG (assert compiled out); FALSE: assert active
  aborted,  \* the process was stopped by a failed assert or a trap
  arr,      \* an array of vec<bool,A>: arr[n] is the data word of vector n
  m,        \* one vec<bool,A> object: its data word
  gv,       \* one generic vec<T,A> object: its data array
  p,        \* an element pointer (const_vptr / vptr): [v, i]
  q,        \* a second element pointer
  pc,       \* position of the running program
  visited,  \* the lanes an iteration has dereferenced, in order
  last,     \* the operation executed last, its arguments and its result
  mem,      \* the memory cells of type T that pointer lanes address
  ptrs,     \* one pointer lane vector vec<T*,A>: its data array of addresses
  rts_64    \* whether the build has 64-bit pointers (RTS_64 defined)

vars == <<ndebug, aborted, arr, m, gv, p, q, pc, visited, last, mem, ptrs, rts_64>>

(***************************************************************************)
(* Bounds of the model.                                                    *)
(***************************************************************************)
LogWidth == 2      \* generic<N> with N = 2^LogWidth lanes
NVec == 2          \* vectors in the array the pointers range over
MaxOff == 9        \* lane offsets k range over -MaxOff..MaxOff
MaxVal == 1        \* element values of vec<T,A> range over 0..MaxVal

Offsets == (0 - MaxOff)..MaxOff
Val == 0..MaxVal

(***************************************************************************)
(* target::generic<N>                                                      *)
(***************************************************************************)
width == 2 ^ LogWidth
Lanes == 0..(width - 1)

\* 1ul << i, an unsigned long with bit i set
shl1ul(i) == {i}
\* ~x on an unsigned long
not64(x) == (0..63) \ x
\* conversion of an unsigned long to std::uint32_t
to_uint32(x) == x \cap (0..31)
\* (1 << width) - 1: the bits below bit width
width_mask == {b \in 0..31 : b < width}

(***************************************************************************)
(* C++ integer division and remainder: the quotient is truncated towards   *)
(* zero and the remainder has the sign of the dividend.                    *)
(***************************************************************************)
cdiv(a, b) == IF a >= 0 THEN a \div b ELSE 0 - ((0 - a) \div b)
cmod(a, b) == a - b * cdiv(a, b)

(***************************************************************************)
(* detail::const_vptr / detail::vptr: a (vector address, lane index) pair. *)
(***************************************************************************)
\* const_vptr(v, i) / vptr(v, i): the members as the constructor sets them
make_vptr(v, i) == [v |-> v, i |-> i]
\* the constructors' assert(0 <= i && i < A::width)
assert_holds(i) == 0 <= i /\ i < width

\* vec<bool,A>::begin() and end() of vector n of the array
begin(n) == make_vptr(n, 0)
end(n) == make_vptr(n + 1, 0)

\* operator + (const_vptr & lhs, ptrdiff_t j), and its three twins
operator_plus(lhs, j) ==
  LET k == lhs.i + j
      v == lhs.v + cdiv(k, width)
      i == cmod(k, width)
  IN  IF i < 0 THEN make_vptr(v - 1, i + 1) ELSE make_vptr(v, i)

\* const_vptr::operator += (ptrdiff_t j), vptr::operator +=
plus_assign(self, j) ==
  LET k == self.i + j
      v == self.v + cdiv(k, width)
      i == cmod(k, width)
  IN  IF i < 0 THEN [v |-> v - 1, i |-> i + 1] ELSE [v |-> v, i |-> i]

\* const_vptr::operator -= (ptrdiff_t j), vptr::operator -=
minus_assign(self, j) ==
  LET k == self.i - j
      v == self.v + cdiv(k, width)
      i == cmod(k, width)
  IN  IF i < 0 THEN [v |-> v - 1, i |-> i + 1] ELSE [v |-> v, i |-> i]

\* a faulty operator -: the right-hand lane index added instead of subtracted
operator_minus_lanes_added(lhs, rhs) == width * (lhs.v - rhs.v) + lhs.i + rhs.i
\* operator - (const const_vptr & lhs, const const_vptr & rhs)
operator_minus(lhs, rhs) == width * (lhs.v - rhs.v) + lhs.i - rhs.i

\* operator ==, !=, <, <=, >, >= on two const_vptr
operator_eq(lhs, rhs) == lhs.v = rhs.v /\ lhs.i = rhs.i
operator_ne(lhs, rhs) == lhs.v # rhs.v \/ lhs.i # rhs.i
operator_lt(lhs, rhs) == lhs.v < rhs.v \/ (lhs.v = rhs.v /\ lhs.i < rhs.i)
operator_le(lhs, rhs) == lhs.v < rhs.v \/ (lhs.v = rhs.v /\ lhs.i <= rhs.i)
operator_gt(lhs, rhs) == lhs.v > rhs.v \/ (lhs.v = rhs.v /\ lhs.i > rhs.i)
operator_ge(lhs, rhs) == lhs.v > rhs.v \/ (lhs.v = rhs.v /\ lhs.i >= rhs.i)

\* operator ++ (const_vptr & lhs): the value of lhs afterwards
operator_preinc(lhs) ==
  LET i == lhs.i + 1
  IN  IF i > width THEN [v |-> lhs.v + 1, i |-> 0] ELSE [v |-> lhs.v, i |-> i]

\* operator -- (const_vptr & lhs): the value of lhs afterwards
operator_predec(lhs) ==
  LET i == lhs.i - 1
  IN  IF i < 0 THEN [v |-> lhs.v - 1, i |-> width - 1] ELSE [v |-> lhs.v, i |-> i]

(***************************************************************************)
(* What the pointer contract asks for, to state the claims against.        *)
(***************************************************************************)
\* a pointer whose lane index is in [0,width)
Valid(x) == x.i \in Lanes
\* the flattened coordinate: vector address * width + lane index
Flat(x) == width * x.v + x.i
\* vector V + floor((i + k) / width), lane (i + k) - q * width
FloorAdvance(x, k) ==
  [v |-> x.v + ((x.i + k) \div width), i |-> (x.i + k) % width]
\* pointers of the array, the one-past-the-end vector included
InArray(x) == x.v \in 0..NVec
\* an offset that keeps a pointer inside the array
Legal(x, k) == (Flat(x) + k) \in 0..(NVec * width)

NoOp == [op |-> "none"]

(***************************************************************************)
(* Construction of the vectors.                                            *)
(***************************************************************************)
\* vec<bool,A>::vec(): data(0)
vec_bool_default == {}
\* vec<bool,A>::vec(bool b): data(b ? arch::width_mask : 0)
vec_bool_broadcast(b) == IF b THEN width_mask ELSE {}
\* vec<T,A>::vec(): data()
vec_default == [i \in Lanes |-> 0]
\* a program that has allocated no cells for pointer lanes to address
no_memory == <<>>

(***************************************************************************)
(* Pointer arithmetic: a program holding two element pointers p and q into *)
(* an array of NVec vectors, starting at begin() of the first vector.      *)
(***************************************************************************)
PtrFrame == UNCHANGED <<rts_64, mem, ptrs, ndebug, arr, m, gv, pc, visited>>

InitPtr ==
  /\ ndebug \in BOOLEAN
  /\ rts_64 = TRUE
  /\ mem = no_memory
  /\ ptrs = vec_default
  /\ aborted = FALSE
  /\ arr = [n \in 0..(NVec - 1) |-> vec_bool_default]
  /\ m = vec_bool_default
  /\ gv = vec_default
  /\ p = begin(0)
  /\ q = begin(0)
  /\ pc = "ptr"
  /\ visited = <<>>
  /\ last = NoOp

\* q = p + k: the result is built by the asserting constructor
Plus(k) ==
  /\ ~aborted
  /\ Legal(p, k)
  /\ InArray(operator_plus(p, k))
  /\ IF ~ndebug /\ ~assert_holds(operator_plus(p, k).i)
       THEN aborted' = TRUE /\ q' = q
       ELSE aborted' = FALSE /\ q' = operator_plus(p, k)
  /\ last' = [op |-> "plus", k |-> k, p0 |-> p]
  /\ p' = p
  /\ PtrFrame

\* p += k
PlusAssign(k) ==
  /\ ~aborted
  /\ Legal(p, k)
  /\ InArray(plus_assign(p, k))
  /\ p' = plus_assign(p, k)
  /\ last' = [op |-> "pluseq", k |-> k, p0 |-> p]
  /\ UNCHANGED <<aborted, q>>
  /\ PtrFrame

\* p -= k
MinusAssign(k) ==
  /\ ~aborted
  /\ Legal(p, 0 - k)
  /\ InArray(minus_assign(p, k))
  /\ p' = minus_assign(p, k)
  /\ last' = [op |-> "minuseq", k |-> k, p0 |-> p]
  /\ UNCHANGED <<aborted, q>>
  /\ PtrFrame

\* ++p
PreInc ==
  /\ ~aborted
  /\ Legal(p, 1)
  /\ InArray(operator_preinc(p))
  /\ p' = operator_preinc(p)
  /\ last' = [op |-> "preinc", p0 |-> p, ret |-> operator_preinc(p)]
  /\ UNCHANGED <<aborted, q>>
  /\ PtrFrame

\* --p
PreDec ==
  /\ ~aborted
  /\ Legal(p, -1)
  /\ InArray(operator_predec(p))
  /\ p' = operator_predec(p)
  /\ last' = [op |-> "predec", p0 |-> p, ret |-> operator_predec(p)]
  /\ UNCHANGED <<aborted, q>>
  /\ PtrFrame

\* q = p++: result = lhs; ++lhs; return result
PostInc ==
  /\ ~aborted
  /\ Legal(p, 1)
  /\ InArray(operator_preinc(p))
  /\ p' = operator_preinc(p)
  /\ q' = p
  /\ last' = [op |-> "postinc", p0 |-> p, ret |-> p]
  /\ UNCHANGED aborted
  /\ PtrFrame

\* q = p--: result = lhs; --lhs; return result
PostDec ==
  /\ ~aborted
  /\ Legal(p, -1)
  /\ InArray(operator_predec(p))
  /\ p' = operator_predec(p)
  /\ q' = p
  /\ last' = [op |-> "postdec", p0 |-> p, ret |-> p]
  /\ UNCHANGED aborted
  /\ PtrFrame

\* q - p
Minus ==
  /\ ~aborted
  /\ last' = [op |-> "minus", ret |-> operator_minus(q, p)]
  /\ UNCHANGED <<aborted, p, q>>
  /\ PtrFrame

\* p == q, p != q, p < q, p <= q, p > q, p >= q
Compare ==
  /\ ~aborted
  /\ last' = [op |-> "cmp",
              eq |-> operator_eq(p, q), ne |-> operator_ne(p, q),
              lt |-> operator_lt(p, q), le |-> operator_le(p, q),
              gt |-> operator_gt(p, q), ge |-> operator_ge(p, q)]
  /\ UNCHANGED <<aborted, p, q>>
  /\ PtrFrame

\* p.swap(q)
Swap ==
  /\ ~aborted
  /\ p' = q
  /\ q' = p
  /\ last' = [op |-> "swap"]
  /\ UNCHANGED aborted
  /\ PtrFrame

NextPtr ==
  \/ \E k \in Offsets : Plus(k)
  \/ \E k \in Offsets : PlusAssign(k)
  \/ \E k \in Offsets : MinusAssign(k)
  \/ PreInc
  \/ PreDec
  \/ PostInc
  \/ PostDec
  \/ Minus
  \/ Compare
  \/ Swap

SpecPtr == InitPtr /\ [][NextPtr]_vars

(***************************************************************************)
(* Claims about pointer arithmetic, under SpecPtr.                         *)
(***************************************************************************)
\* C1: from a pointer at (V, i) with 0 <= i < width, p + k, p += k and
\* p -= k (offset -k) give vector V + floor((i + k) / width), lane
\* (i + k) - width * floor((i + k) / width), for every signed k.
C1_FloorDivision ==
  /\ (last.op = "plus" /\ ~aborted /\ Valid(last.p0))
       => q = FloorAdvance(last.p0, last.k)
  /\ (last.op = "pluseq" /\ Valid(last.p0))
       => p = FloorAdvance(last.p0, last.k)
  /\ (last.op = "minuseq" /\ Valid(last.p0))
       => p = FloorAdvance(last.p0, 0 - last.k)

\* C2: every pointer obtained from begin() by increments, decrements, += k,
\* -= k and + k has its lane index in [0,width).
C2_LaneIndexInRange == Valid(p) /\ Valid(q)

\* C3: (p + a) - p = a for every valid p and every signed a.
C3_PlusThenMinus ==
  (last.op = "plus" /\ ~aborted /\ Valid(last.p0))
    => operator_minus(q, last.p0) = last.k

\* C4: (p + a) + b == p + (a + b) for every valid p and all signed a, b,
\* with == the pointers' operator ==.
C4_PlusAssociative ==
  (last.op = "plus" /\ ~aborted /\ Valid(last.p0))
    => \A b \in Offsets :
         Legal(last.p0, last.k + b)
           => operator_eq(operator_plus(q, b),
                          operator_plus(last.p0, last.k + b))

\* C5: p2 - p1 is width * (V2 - V1) + i2 - i1, the distance of the two
\* flattened coordinates, with V2 - V1 counted in whole vectors.
C5_MinusIsFlatDistance ==
  last.op = "minus" => last.ret = Flat(q) - Flat(p)

\* C5 witness: a difference across a vector boundary, the later pointer on
\* the lower lane.
C5_Witness ==
  /\ last.op = "minus"
  /\ Valid(p) /\ Valid(q)
  /\ q.v > p.v /\ q.i < p.i /\ p.i > 0
  /\ last.ret > 0

\* C6: equality and ordering agree with the flattened coordinate: p == q iff
\* p - q = 0, p < q iff p - q < 0, p <= q iff p - q <= 0, and exactly one of
\* p < q, p == q, p > q holds.
C6_OrderIsFlatOrder ==
  last.op = "cmp" =>
    /\ last.eq <=> (operator_minus(p, q) = 0)
    /\ last.lt <=> (operator_minus(p, q) < 0)
    /\ last.le <=> (operator_minus(p, q) <= 0)
    /\ last.ne <=> ~last.eq
    /\ Cardinality({r \in {"lt", "eq", "gt"} :
                      \/ r = "lt" /\ last.lt
                      \/ r = "eq" /\ last.eq
                      \/ r = "gt" /\ last.gt}) = 1

\* C7: ++p leaves p at (old p) + 1 and --p at (old p) + (-1), the vector
\* boundaries included; p++ and p-- change p the same way and return the
\* old value of p.
C7_IncDecAreUnitSteps ==
  /\ (last.op \in {"preinc", "postinc"} /\ Valid(last.p0))
       => p = FloorAdvance(last.p0, 1)
  /\ (last.op \in {"predec", "postdec"} /\ Valid(last.p0))
       => p = FloorAdvance(last.p0, -1)
  /\ last.op \in {"preinc", "predec"} => last.ret = p
  /\ last.op \in {"postinc", "postdec"} => (last.ret = last.p0 /\ q = last.p0)

(***************************************************************************)
(* Lane access: vec<bool,A>::get / put, vec<T,A>::get / put, and the       *)
(* element reference detail::vref that operator * of a pointer returns.    *)
(***************************************************************************)
\* vec<bool,A>::get(int i): data & (1ul << i), converted to bool
vec_bool_get(data, i) == (data \cap shl1ul(i)) # {}

\* a faulty put: the clearing branch keeps only bit i instead of dropping it
vec_bool_put_keeps_bit(data, i, b) ==
  IF b THEN to_uint32(data \cup shl1ul(i))
       ELSE to_uint32(data \cap shl1ul(i))
\* vec<bool,A>::put(int i, bool b):
\* data = b ? data | (1ul << i) : data & ~(1ul << i)
vec_bool_put(data, i, b) ==
  IF b THEN to_uint32(data \cup shl1ul(i))
       ELSE to_uint32(data \cap not64(shl1ul(i)))

\* vec<T,A>::get(int i): data[i]
vec_get(data, i) == data[i]
\* vec<T,A>::put(int i, const T & rhs): data[i] = rhs
vec_put(data, i, rhs) == [data EXCEPT ![i] = rhs]

\* vec<bool,A>::movemask(): data
movemask(data) == data

\* detail::vref(v, i): a reference bound to lane i of vector v of the array
make_vref(v, i) == [v |-> v, i |-> i]
\* vref::operator T () / vref::get(): v.get(i)
vref_get(a, r) == vec_bool_get(a[r.v], r.i)
\* the call v.put(i, t) in vref::operator = (U t)
vref_put(a, r, t) == [a EXCEPT ![r.v] = vec_bool_put(a[r.v], r.i, t)]
\* vref & operator = (U t) { v.put(i,t); } has no return statement: control
\* flows off the end of a function returning a reference, which is undefined.
\* A build returns a garbage reference after the store, or drops the store
\* with the path that cannot return, or traps after the store.
vref_assign_outcomes == {"returns", "store_elided", "trap"}

(***************************************************************************)
(* Iteration: a loop from V.begin() to V.end() by ++it whose body reads the *)
(* element the iterator points at, over vector n of an array of masks.     *)
(***************************************************************************)
\* the masks of the array, each built by vec(bool)
ConstructedArrays ==
  [0..(NVec - 1) -> {vec_bool_broadcast(FALSE), vec_bool_broadcast(TRUE)}]

InitIter ==
  /\ ndebug \in BOOLEAN
  /\ rts_64 = TRUE
  /\ mem = no_memory
  /\ ptrs = vec_default
  /\ aborted = FALSE
  /\ arr \in ConstructedArrays
  /\ m = vec_bool_default
  /\ gv = vec_default
  /\ p = make_vptr(0, 0)
  /\ q = make_vptr(0, 0)
  /\ pc = "start"
  /\ visited = <<>>
  /\ last = NoOp

\* it = V.begin(), with V.end() evaluated for the loop test
IterBegin(n) ==
  /\ pc = "start"
  /\ p' = begin(n)
  /\ q' = end(n)
  /\ pc' = "loop"
  /\ last' = [op |-> "iter", n |-> n]
  /\ UNCHANGED <<rts_64, mem, ptrs, ndebug, aborted, arr, m, gv, visited>>

\* it != V.end() holds: the body reads *it, then ++it
IterStep ==
  /\ pc = "loop"
  /\ ~aborted
  /\ operator_ne(p, q)
  /\ IF ~ndebug /\ ~assert_holds(p.i)
       THEN /\ aborted' = TRUE
            /\ UNCHANGED <<p, visited>>
       ELSE /\ aborted' = FALSE
            /\ visited' = Append(visited,
                 [v |-> p.v, i |-> p.i, val |-> vref_get(arr, make_vref(p.v, p.i))])
            /\ p' = operator_preinc(p)
  /\ UNCHANGED <<rts_64, mem, ptrs, ndebug, arr, m, gv, q, pc, last>>

\* it != V.end() fails: the loop is left
IterEnd ==
  /\ pc = "loop"
  /\ ~aborted
  /\ ~operator_ne(p, q)
  /\ pc' = "done"
  /\ UNCHANGED <<rts_64, mem, ptrs, ndebug, aborted, arr, m, gv, p, q, visited, last>>

NextIter ==
  \/ \E n \in 0..(NVec - 1) : IterBegin(n)
  \/ IterStep
  \/ IterEnd

SpecIter == InitIter /\ [][NextIter]_vars

\* C8: iterating from V.begin() by ++ until V.end() ends after exactly width
\* increments, having visited lanes 0, 1, ..., width-1 of V in that order,
\* each once, and never holds a lane index outside [0,width) on V.
C8_IterationVisitsLanesInOrder ==
  /\ pc = "done" =>
       /\ Len(visited) = width
       /\ \A k \in 1..Len(visited) :
            visited[k].v = last.n /\ visited[k].i = k - 1
  /\ (pc = "loop" /\ p.v = last.n) => Valid(p)

(***************************************************************************)
(* Dereference: reads and writes through *p, for an element pointer p into *)
(* an array of masks.                                                      *)
(***************************************************************************)
\* the pointers a program holds: every lane of every vector of the array,
\* and lane index width, where operator ++ leaves a pointer that stood on
\* lane width-1
HeldPointers == {make_vptr(n, i) : n \in 0..(NVec - 1), i \in 0..width}

InitRef ==
  /\ ndebug \in BOOLEAN
  /\ rts_64 = TRUE
  /\ mem = no_memory
  /\ ptrs = vec_default
  /\ aborted = FALSE
  /\ arr \in ConstructedArrays
  /\ m = vec_bool_default
  /\ gv = vec_default
  /\ p \in HeldPointers
  /\ q = p
  /\ pc = "ref"
  /\ visited = <<>>
  /\ last = NoOp

\* bool b = *p: vptr::operator * builds the reference, operator T () reads it
DerefRead ==
  /\ ~aborted
  /\ IF ~ndebug /\ ~assert_holds(p.i)
       THEN /\ aborted' = TRUE
            /\ last' = [op |-> "assert"]
       ELSE /\ aborted' = FALSE
            /\ last' = [op |-> "read",
                        ret |-> vref_get(arr, make_vref(p.v, p.i))]
  /\ UNCHANGED <<rts_64, mem, ptrs, ndebug, arr, m, gv, p, q, pc, visited>>

\* *p = x: vptr::operator * builds the reference, vref::operator = writes
DerefWrite(x, outcome) ==
  /\ ~aborted
  /\ IF ~ndebug /\ ~assert_holds(p.i)
       THEN /\ aborted' = TRUE
            /\ arr' = arr
            /\ last' = [op |-> "assert"]
       ELSE /\ aborted' = (outcome = "trap")
            /\ arr' = IF outcome = "store_elided"
                        THEN arr
                        ELSE vref_put(arr, make_vref(p.v, p.i), x)
            /\ last' = [op |-> "write", x |-> x, old |-> arr,
                        outcome |-> outcome]
  /\ UNCHANGED <<rts_64, mem, ptrs, ndebug, m, gv, p, q, pc, visited>>

NextRef ==
  \/ DerefRead
  \/ \E x \in BOOLEAN, outcome \in vref_assign_outcomes : DerefWrite(x, outcome)

SpecRef == InitRef /\ [][NextRef]_vars

\* C9: dereferencing a pointer at (V, i) gives a reference bound to lane i of
\* V: reading it returns get(V, i), and assigning x through it makes
\* get(V, i) = x while every other lane of V and every other vector stay
\* unchanged.
C9_DerefReadsAndWritesLane ==
  /\ (last.op = "read" /\ Valid(p))
       => last.ret = (p.i \in movemask(arr[p.v]))
  /\ (last.op = "write" /\ Valid(p))
       => /\ vec_bool_get(arr[p.v], p.i) = last.x
          /\ \A n \in 0..(NVec - 1), j \in 0..31 :
               (n # p.v \/ j # p.i)
                 => vec_bool_get(arr[n], j) = vec_bool_get(last.old[n], j)

(***************************************************************************)
(* Lane put and get on one vector: a generic vec<T,A> or a mask            *)
(* vec<bool,A>, as pc says.                                                *)
(***************************************************************************)
InitVec ==
  /\ ndebug \in BOOLEAN
  /\ rts_64 = TRUE
  /\ mem = no_memory
  /\ ptrs = vec_default
  /\ aborted = FALSE
  /\ arr = [n \in 0..(NVec - 1) |-> vec_bool_default]
  /\ m \in {vec_bool_broadcast(FALSE), vec_bool_broadcast(TRUE)}
  /\ gv = vec_default
  /\ p = make_vptr(0, 0)
  /\ q = make_vptr(0, 0)
  /\ pc \in {"generic", "mask"}
  /\ visited = <<>>
  /\ last = NoOp

\* gv.put(i, x) on the generic vector
GenericPut(i, x) ==
  /\ pc = "generic"
  /\ gv' = vec_put(gv, i, x)
  /\ last' = [op |-> "put", i |-> i, x |-> x, old |-> gv]
  /\ UNCHANGED <<rts_64, mem, ptrs, ndebug, aborted, arr, m, p, q, pc, visited>>

\* m.put(i, b) on the mask
MaskPut(i, b) ==
  /\ pc = "mask"
  /\ m' = vec_bool_put(m, i, b)
  /\ last' = [op |-> "put", i |-> i, x |-> b, old |-> m]
  /\ UNCHANGED <<rts_64, mem, ptrs, ndebug, aborted, arr, gv, p, q, pc, visited>>

NextVec ==
  \/ \E i \in Lanes, x \in Val : GenericPut(i, x)
  \/ \E i \in Lanes, b \in BOOLEAN : MaskPut(i, b)

SpecVec == InitVec /\ [][NextVec]_vars

\* C10: after put(v, i, x) with i in [0,width), get(v, i) = x and get(v, j)
\* is unchanged for every other lane j, for the generic vector and for the
\* bit-packed mask.
C10_PutThenGet ==
  last.op = "put" =>
    /\ pc = "generic" =>
         /\ vec_get(gv, last.i) = last.x
         /\ \A j \in Lanes \ {last.i} : vec_get(gv, j) = vec_get(last.old, j)
    /\ pc = "mask" =>
         /\ vec_bool_get(m, last.i) = last.x
         /\ \A j \in Lanes \ {last.i} :
              vec_bool_get(m, j) = vec_bool_get(last.old, j)

\* C10 witness: a put of false on a set lane of a mask that has another lane
\* set.
C10_Witness ==
  /\ last.op = "put"
  /\ pc = "mask"
  /\ last.x = FALSE
  /\ vec_bool_get(last.old, last.i)
  /\ \E j \in Lanes \ {last.i} : vec_bool_get(m, j)

(***************************************************************************)
(* The mask vector vec<bool,A>: constructors, boolean algebra, any / all   *)
(* and foreach_active.                                                     *)
(***************************************************************************)
MaxList == 4       \* initializer lists hold at most MaxList booleans
MaxOperandList == 2  \* right-hand sides are built from MaxOperandList booleans

\* i <<= 1 on the int that walks the bits of an initializer list
shl_int(x) == {b + 1 : b \in x}
\* a ^ b on two words
bit_xor(a, b) == (a \ b) \cup (b \ a)

\* vec<bool,A>::vec(std::uint32_t data, detail::internal_t): data(data)
vec_bool_internal(data) == data
\* vec<bool,A>::vec(std::false_type) and vec(std::true_type)
vec_bool_tag(b) == IF b THEN width_mask ELSE {}

\* vec<T,A>::vec(const T & u): every lane set to u
vec_broadcast(u) == [i \in Lanes |-> u]
\* vec<T,A>::vec(const T & u, detail::step_t): T v = u; for each lane r = v++
vec_step(u) == [i \in Lanes |-> u + i]
\* vec<T,A>::vec(std::initializer_list<T> il): data(), then il copied to the
\* front of data
vec_list(il) == [i \in Lanes |-> IF i < Len(il) THEN il[i + 1] ELSE 0]
\* the list x, x+1, ... of one value per lane
ramp(x) == [k \in 1..width |-> x + k - 1]

\* vec<bool,A>::vec(vec<U,arch> & that): the loop from lane i on
RECURSIVE vec_bool_from_vec_loop(_, _, _)
vec_bool_from_vec_loop(that, i, data) ==
  IF i < width
    THEN vec_bool_from_vec_loop(that, i + 1,
           IF vec_get(that, i) # 0 THEN to_uint32(data \cup shl1ul(i)) ELSE data)
    ELSE data
vec_bool_from_vec(that) == vec_bool_from_vec_loop(that, 0, {})

\* vec<bool,A>::vec(std::initializer_list<bool> bs): the loop from the k-th
\* boolean on, with i the int holding the bit of that position
RECURSIVE vec_bool_list_loop(_, _, _, _)
vec_bool_list_loop(bs, k, i, data) ==
  IF k <= Len(bs)
    THEN vec_bool_list_loop(bs, k + 1, shl_int(i),
           IF bs[k] THEN to_uint32(data \cup i) ELSE data)
    ELSE data
\* a faulty list constructor: the bit is shifted before the first test
vec_bool_list_shifts_first(bs) == vec_bool_list_loop(bs, 1, {1}, {})
\* vec<bool,A>::vec(std::initializer_list<bool> bs): data(0), int i = 1
vec_bool_list(bs) == vec_bool_list_loop(bs, 1, {0}, {})

\* a faulty operator ~: every bit of the word flipped
op_not_flips_word(data) == vec_bool_internal(bit_xor(data, 0..31))
\* vec<bool,A>::operator ~ : vec(data ^ A::width_mask)
op_not(data) == vec_bool_internal(bit_xor(data, width_mask))
\* vec<bool,A>::operator ! : vec(data ^ A::width_mask)
op_lnot(data) == vec_bool_internal(bit_xor(data, width_mask))
\* vec<bool,A>::operator & : vec(data & rhs.data)
op_and(data, rhs) == vec_bool_internal(data \cap rhs)
\* vec<bool,A>::operator | : vec(data | rhs.data)
op_or(data, rhs) == vec_bool_internal(data \cup rhs)
\* a faulty operator ^: the bits of either operand
op_xor_keeps_common(data, rhs) == vec_bool_internal(data \cup rhs)
\* vec<bool,A>::operator ^ : vec(data ^ rhs.data)
op_xor(data, rhs) == vec_bool_internal(bit_xor(data, rhs))
\* vec<bool,A>::operator && : vec(data & rhs.data)
op_land(data, rhs) == vec_bool_internal(data \cap rhs)
\* vec<bool,A>::operator || : vec(data | rhs.data)
op_lor(data, rhs) == vec_bool_internal(data \cup rhs)
\* vec<bool,A>::operator &=, |=, ^= : the data word afterwards
op_and_assign(data, rhs) == data \cap rhs
op_or_assign(data, rhs) == data \cup rhs
op_xor_assign(data, rhs) == bit_xor(data, rhs)

\* any(m): movemask(m) != 0
any(data) == movemask(data) # {}
\* a faulty all: the word compared with all 32 bits
all_compares_word(data) == movemask(data) = 0..31
\* all(m): movemask(m) == A::width_mask
all(data) == movemask(data) = width_mask

\* bscf(m), bit scan and clear forward: the index of the lowest set bit of m,
\* and m with that bit cleared
bscf_index(mw) == CHOOSE b \in mw : \A c \in mw : b <= c
bscf_rest(mw) == mw \ {bscf_index(mw)}

\* foreach_active(mask, f) from the word mw on: the arguments of the calls of
\* f, in the order of the calls
RECURSIVE foreach_active_loop(_)
foreach_active_loop(mw) ==
  IF mw # {}
    THEN <<bscf_index(mw)>> \o foreach_active_loop(bscf_rest(mw))
    ELSE <<>>
\* a faulty foreach_active: f is called for every lane, set or clear
foreach_active_every_lane(data) == [k \in 1..width |-> k - 1]
\* foreach_active(mask, f): std::uint32_t m = movemask(mask); while (m) ...
foreach_active(data) == foreach_active_loop(movemask(data))

(***************************************************************************)
(* SpecMask: one mask object m, built by each constructor and combined     *)
(* with operand masks; `last` records the last operation and what it       *)
(* returned.                                                               *)
(***************************************************************************)
ListMax == IF MaxList < width THEN MaxList ELSE width
Lists == UNION {[1..n -> BOOLEAN] : n \in 0..ListMax}
\* the vectors a mask is converted from
GenericSources == {vec_broadcast(x) : x \in Val} \cup {vec_list(ramp(x)) : x \in Val}
\* the masks an operator's right-hand side is drawn from
Operands == {vec_bool_default, vec_bool_broadcast(TRUE), vec_bool_broadcast(FALSE)}
              \cup {vec_bool_list(bs) : bs \in [1..MaxOperandList -> BOOLEAN]}

MaskFrame == UNCHANGED <<rts_64, mem, ptrs, ndebug, aborted, arr, gv, p, q, pc, visited>>

InitMask ==
  /\ ndebug = FALSE
  /\ rts_64 = TRUE
  /\ mem = no_memory
  /\ ptrs = vec_default
  /\ aborted = FALSE
  /\ arr = [n \in 0..(NVec - 1) |-> vec_bool_default]
  /\ m = vec_bool_default
  /\ gv = vec_default
  /\ p = make_vptr(0, 0)
  /\ q = make_vptr(0, 0)
  /\ pc = "mask"
  /\ visited = <<>>
  /\ last = NoOp

ConstructDefault ==
  /\ m' = vec_bool_default
  /\ last' = [op |-> "ctor_default"]
  /\ MaskFrame

ConstructBool(b) ==
  /\ m' = vec_bool_broadcast(b)
  /\ last' = [op |-> "ctor_bool", b |-> b]
  /\ MaskFrame

ConstructTag(b) ==
  /\ m' = vec_bool_tag(b)
  /\ last' = [op |-> "ctor_tag", b |-> b]
  /\ MaskFrame

ConstructFromVec(that) ==
  /\ m' = vec_bool_from_vec(that)
  /\ last' = [op |-> "ctor_vec", that |-> that]
  /\ MaskFrame

ConstructList(bs) ==
  /\ m' = vec_bool_list(bs)
  /\ last' = [op |-> "ctor_list", bs |-> bs]
  /\ MaskFrame

\* r = ~m and r = !m
Not ==
  /\ last' = [op |-> "not", a |-> m, ret |-> op_not(m)]
  /\ UNCHANGED m
  /\ MaskFrame

LNot ==
  /\ last' = [op |-> "lnot", a |-> m, ret |-> op_lnot(m)]
  /\ UNCHANGED m
  /\ MaskFrame

\* r = m & b, m | b, m ^ b, m && b, m || b
BinOp(o, b) ==
  /\ o \in {"and", "or", "xor", "land", "lor"}
  /\ last' = [op |-> o, a |-> m, b |-> b,
              ret |-> CASE o = "and"  -> op_and(m, b)
                        [] o = "or"   -> op_or(m, b)
                        [] o = "xor"  -> op_xor(m, b)
                        [] o = "land" -> op_land(m, b)
                        [] o = "lor"  -> op_lor(m, b)]
  /\ UNCHANGED m
  /\ MaskFrame

\* m &= b, m |= b, m ^= b
CompoundAssign(o, b) ==
  /\ o \in {"and_eq", "or_eq", "xor_eq"}
  /\ m' = CASE o = "and_eq" -> op_and_assign(m, b)
            [] o = "or_eq"  -> op_or_assign(m, b)
            [] o = "xor_eq" -> op_xor_assign(m, b)
  /\ last' = [op |-> o, a |-> m, b |-> b]
  /\ MaskFrame

\* m.swap(that): the two data words change places
SwapMask(that) ==
  /\ m' = that
  /\ last' = [op |-> "swap", that |-> m]
  /\ MaskFrame

\* m = r, with r the mask the last operator returned
AssignResult ==
  /\ last.op \in {"not", "lnot", "and", "or", "xor", "land", "lor"}
  /\ m' = last.ret
  /\ last' = [op |-> "assign"]
  /\ MaskFrame

AnyAll ==
  /\ last' = [op |-> "anyall", any |-> any(m), all |-> all(m)]
  /\ UNCHANGED m
  /\ MaskFrame

Foreach ==
  /\ last' = [op |-> "foreach", calls |-> foreach_active(m)]
  /\ UNCHANGED m
  /\ MaskFrame

NextMask ==
  \/ ConstructDefault
  \/ \E b \in BOOLEAN : ConstructBool(b)
  \/ \E b \in BOOLEAN : ConstructTag(b)
  \/ \E that \in GenericSources : ConstructFromVec(that)
  \/ \E bs \in Lists : ConstructList(bs)
  \/ Not
  \/ LNot
  \/ \E o \in {"and", "or", "xor", "land", "lor"}, b \in Operands : BinOp(o, b)
  \/ \E o \in {"and_eq", "or_eq", "xor_eq"}, b \in Operands : CompoundAssign(o, b)
  \/ \E that \in Operands : SwapMask(that)
  \/ AssignResult
  \/ \E i \in Lanes, b \in BOOLEAN : MaskPut(i, b)
  \/ AnyAll
  \/ Foreach

SpecMask == InitMask /\ [][NextMask]_vars

\* the bits of a data word above the architecture's width
HighBits(data) == movemask(data) \cap ((0..31) \ width_mask)
\* the number a data word holds
RECURSIVE Value(_)
Value(data) ==
  IF data = {} THEN 0
  ELSE LET b == CHOOSE x \in data : TRUE IN 2 ^ b + Value(data \ {b})

\* C11: a mask's data word never has a bit set at or above bit `width`,
\* whichever constructor or operator produced it: the mask object itself and
\* every mask an operator returns.
C11_NoBitsAboveWidth ==
  /\ HighBits(m) = {}
  /\ last.op \in {"not", "lnot", "and", "or", "xor", "land", "lor"}
       => HighBits(last.ret) = {}
C11_Witness ==
  /\ last.op = "not"
  /\ last.a # {}
  /\ last.ret # {}
  /\ last.ret \cup last.a = width_mask

\* C12: bit i of movemask(m) is 1 exactly when get(m, i) is true, for every
\* lane i; a mask built from an element list has lane k equal to the k-th
\* listed boolean, and the list true, false, true, false has movemask 5.
C12_MovemaskBitsAreLanes ==
  /\ \A i \in Lanes : (i \in movemask(m)) <=> vec_bool_get(m, i)
  /\ last.op = "ctor_list" =>
       /\ \A k \in 1..Len(last.bs) : vec_bool_get(m, k - 1) = last.bs[k]
       /\ last.bs = <<TRUE, FALSE, TRUE, FALSE>> => Value(movemask(m)) = 5
C12_Witness ==
  /\ last.op = "ctor_list"
  /\ last.bs = <<TRUE, FALSE, TRUE, FALSE>>
  /\ vec_bool_get(m, 2)

\* C13: foreach_active(mask, f) calls f(i) once for every lane i whose bit is
\* set in movemask(mask), in strictly ascending order of i, for no clear bit,
\* and returns after popcount(movemask(mask)) calls: none for a clear mask.
C13_ForeachVisitsSetBitsAscending ==
  last.op = "foreach" =>
    /\ \A j, k \in 1..Len(last.calls) : j < k => last.calls[j] < last.calls[k]
    /\ {last.calls[j] : j \in 1..Len(last.calls)} = {i \in 0..31 : i \in movemask(m)}
    /\ Len(last.calls) = Cardinality(movemask(m))
    /\ Value(movemask(m)) = 0 => last.calls = <<>>
C13_Witness ==
  /\ last.op = "foreach"
  /\ Len(last.calls) >= 2
  /\ \E i \in Lanes : ~vec_bool_get(m, i) /\ i < last.calls[Len(last.calls)]

\* C14: any(m) is true exactly when movemask(m) is not 0, and all(m) exactly
\* when movemask(m) is width_mask; that is, any(m) when some lane is true and
\* all(m) when every lane is true.
C14_AnyAllAgreeWithLanes ==
  last.op = "anyall" =>
    /\ last.any <=> Value(movemask(m)) # 0
    /\ last.all <=> Value(movemask(m)) = 2 ^ width - 1
    /\ last.any <=> \E i \in Lanes : vec_bool_get(m, i)
    /\ last.all <=> \A i \in Lanes : vec_bool_get(m, i)
C14_Witness ==
  /\ last.op = "anyall"
  /\ last.any
  /\ ~last.all

\* C15: the mask operators agree lane by lane with boolean logic: & and &&
\* with and, | and || with or, ^ with exclusive or, ~ and ! with not; the
\* mask the operator is applied to is not modified.
C15_BooleanAlgebraPerLane ==
  /\ last.op \in {"and", "land"} =>
       \A i \in Lanes : vec_bool_get(last.ret, i)
                          = (vec_bool_get(last.a, i) /\ vec_bool_get(last.b, i))
  /\ last.op \in {"or", "lor"} =>
       \A i \in Lanes : vec_bool_get(last.ret, i)
                          = (vec_bool_get(last.a, i) \/ vec_bool_get(last.b, i))
  /\ last.op = "xor" =>
       \A i \in Lanes : vec_bool_get(last.ret, i)
                          = (vec_bool_get(last.a, i) # vec_bool_get(last.b, i))
  /\ last.op \in {"not", "lnot"} =>
       \A i \in Lanes : vec_bool_get(last.ret, i) = ~vec_bool_get(last.a, i)
  /\ last.op \in {"and", "land", "or", "lor", "xor", "not", "lnot"} => m = last.a
C15_Witness ==
  /\ last.op = "xor"
  /\ last.a \cap last.b # {}
  /\ last.a \ last.b # {}
  /\ last.b \ last.a # {}

(***************************************************************************)
(* The default loader strategy detail::base_loader and the free functions  *)
(* load / store: gather from and scatter to the cells that the lanes of a  *)
(* pointer vector vec<T*,A> address.                                       *)
(***************************************************************************)
\* the cells of the caller's memory; a pointer is the number of its cell
Cells == 0..width
\* the caller's array: cell c holds 100 * (c + 1)
initial_memory == [c \in Cells |-> 100 * (c + 1)]

\* a faulty lane loop: from the last lane down to lane 0
for_each_lane_descending == [k \in 1..width |-> width - k]
\* for (int i=0;i<arch::width;++i): the values of i, in order
for_each_lane == [k \in 1..width |-> k - 1]

\* u.put(i, *v.get(i)) for each i of calls, in order: the vector u afterwards
RECURSIVE put_each(_, _, _, _)
put_each(u, memory, v, calls) ==
  IF calls = <<>> THEN u
  ELSE put_each(vec_put(u, Head(calls), memory[vec_get(v, Head(calls))]),
                memory, v, Tail(calls))

\* *v.get(i) = u.get(i) for each i of calls, in order: the memory afterwards
RECURSIVE assign_each(_, _, _, _)
assign_each(memory, v, u, calls) ==
  IF calls = <<>> THEN memory
  ELSE assign_each([memory EXCEPT ![vec_get(v, Head(calls))] = vec_get(u, Head(calls))],
                   v, u, Tail(calls))

\* a faulty load: every lane reads through the pointer of lane 0
base_loader_load_reads_lane0(u, memory, v) ==
  [i \in Lanes |-> memory[vec_get(v, 0)]]
\* base_loader::load(vector & u, pointers v)
base_loader_load(u, memory, v) == put_each(u, memory, v, for_each_lane)

\* a faulty load_masked: the mask is ignored
base_loader_load_masked_every_lane(u, memory, v, mask) ==
  put_each(u, memory, v, for_each_lane)
\* base_loader::load_masked(vector & u, pointers v, mask m)
base_loader_load_masked(u, memory, v, mask) ==
  put_each(u, memory, v, foreach_active(mask))

\* a faulty store: the last lane is not written
base_loader_store_drops_last(memory, v, u) ==
  assign_each(memory, v, u, SubSeq(for_each_lane, 1, width - 1))
\* base_loader::store(pointers v, const vector & u)
base_loader_store(memory, v, u) == assign_each(memory, v, u, for_each_lane)

\* a faulty store_masked: the mask is ignored
base_loader_store_masked_every_lane(memory, v, u, mask) ==
  assign_each(memory, v, u, for_each_lane)
\* base_loader::store_masked(pointers v, const vector & u, mask m)
base_loader_store_masked(memory, v, u, mask) ==
  assign_each(memory, v, u, foreach_active(mask))

\* load(pointers): vec<T,A> result; loader::load(result, pointers); return result
load(memory, pointers) == base_loader_load(vec_default, memory, pointers)
\* store(pointers, t): loader::store(pointers, t)
store(memory, pointers, t) == base_loader_store(memory, pointers, t)
\* store(pointers, t, mask): loader::store_masked(pointers, t, mask)
store_under_mask(memory, pointers, t, mask) ==
  base_loader_store_masked(memory, pointers, t, mask)

(***************************************************************************)
(* SpecLoad: a memory, a pointer vector ptrs over its cells, a vector gv   *)
(* and a mask m; a store or masked store may be followed by a load.        *)
(***************************************************************************)
\* pointer vectors: consecutive cells, one cell in every lane, and
\* consecutive cells with one lane redirected by put
PointerVectors ==
  {vec_list(ramp(base)) : base \in 0..1}
    \cup {vec_broadcast(a) : a \in Cells}
    \cup {vec_put(vec_list(ramp(0)), j, a) : j \in Lanes, a \in Cells}
\* value vectors: default, broadcast and list construction
ValueVectors ==
  {vec_default} \cup {vec_broadcast(x) : x \in Val} \cup {vec_list(ramp(x)) : x \in Val}

LoadFrame == UNCHANGED <<rts_64, ndebug, aborted, arr, p, q, visited>>

InitLoad ==
  /\ ndebug = FALSE
  /\ rts_64 = TRUE
  /\ mem = initial_memory
  /\ ptrs \in PointerVectors
  /\ aborted = FALSE
  /\ arr = [n \in 0..(NVec - 1) |-> vec_bool_default]
  /\ m \in Operands
  /\ gv \in ValueVectors
  /\ p = make_vptr(0, 0)
  /\ q = make_vptr(0, 0)
  /\ pc = "ready"
  /\ visited = <<>>
  /\ last = NoOp

\* store(ptrs, gv)
Store ==
  /\ pc = "ready"
  /\ mem' = store(mem, ptrs, gv)
  /\ last' = [op |-> "store", mem0 |-> mem, v |-> ptrs, u |-> gv]
  /\ pc' = "stored"
  /\ UNCHANGED <<ptrs, gv, m>>
  /\ LoadFrame

\* store(ptrs, gv, m)
StoreMasked ==
  /\ pc = "ready"
  /\ mem' = store_under_mask(mem, ptrs, gv, m)
  /\ last' = [op |-> "store_masked", mem0 |-> mem, v |-> ptrs, u |-> gv, mask |-> m]
  /\ pc' = "stored"
  /\ UNCHANGED <<ptrs, gv, m>>
  /\ LoadFrame

\* vec<T,A> r; detail::loader<T,A>::load(r, ptrs): the statements of
\* load(pointers), run on a named vector
Load ==
  /\ pc \in {"ready", "stored"}
  /\ last' = [op |-> "load", prev |-> last.op, mem0 |-> mem, ret |-> load(mem, ptrs)]
  /\ pc' = "done"
  /\ UNCHANGED <<mem, ptrs, gv, m>>
  /\ LoadFrame

\* loader::load_masked(gv, ptrs, m); reads holds the lanes whose pointer
\* was dereferenced
LoadMasked ==
  /\ pc \in {"ready", "stored"}
  /\ gv' = base_loader_load_masked(gv, mem, ptrs, m)
  /\ last' = [op |-> "load_masked", mem0 |-> mem, dst0 |-> gv,
              reads |-> foreach_active(m)]
  /\ pc' = "done"
  /\ UNCHANGED <<mem, ptrs, m>>
  /\ LoadFrame

\* vec<T,A> r; detail::loader<T,A>::load(r, ptrs); store(ptrs, r): the round
\* trip store(ptrs, load(ptrs)) with the load run on a named vector
StoreOfLoad ==
  /\ pc \in {"ready", "stored"}
  /\ mem' = store(mem, ptrs, load(mem, ptrs))
  /\ last' = [op |-> "store_of_load", mem0 |-> mem]
  /\ pc' = "done"
  /\ UNCHANGED <<ptrs, gv, m>>
  /\ LoadFrame

NextLoad ==
  \/ Store
  \/ StoreMasked
  \/ Load
  \/ LoadMasked
  \/ StoreOfLoad

SpecLoad == InitLoad /\ [][NextLoad]_vars

\* the lanes of pointer vector v that address cell c
Addressing(v, c) == {i \in Lanes : vec_get(v, i) = c}
\* no two lanes of v address the same cell
PairwiseDistinct(v) == \A i, j \in Lanes : i # j => vec_get(v, i) # vec_get(v, j)
\* the largest element of a non-empty set of lanes
Highest(S) == CHOOSE i \in S : \A j \in S : j <= i

C18_LoadMaskedTouchesActiveLanesOnly ==
  last.op = "load_masked" =>
    /\ \A i \in Lanes :
         vec_get(gv, i) = IF vec_bool_get(m, i) THEN last.mem0[vec_get(ptrs, i)]
                                                ELSE vec_get(last.dst0, i)
    /\ \A k \in 1..Len(last.reads) : vec_bool_get(m, last.reads[k])
    /\ mem = last.mem0
    /\ (/\ last.mem0 = initial_memory
        /\ ptrs = vec_list(ramp(0))
        /\ m = vec_bool_list(<<TRUE, TRUE, FALSE, FALSE>>)
        /\ last.dst0 = vec_default)
         => gv = [i \in Lanes |-> IF i = 0 THEN 100 ELSE IF i = 1 THEN 200 ELSE 0]
C18_Witness ==
  /\ last.op = "load_masked"
  /\ last.mem0 = initial_memory
  /\ ptrs = vec_list(ramp(0))
  /\ m = vec_bool_list(<<TRUE, TRUE, FALSE, FALSE>>)
  /\ last.dst0 = vec_default
  /\ vec_get(gv, 1) = 200

\* the lanes of v that address cell c and are set in mask
ActiveAddressing(v, mask, c) == {i \in Addressing(v, c) : vec_bool_get(mask, i)}

\* C19: store_masked(dst, src, mask) leaves every cell that no active lane
\* addresses unchanged, cells addressed by inactive lanes only included; a
\* cell addressed by exactly one active lane i holds src[i]; src, dst and
\* mask are unchanged.
C19_StoreMaskedWritesActiveLanesOnly ==
  last.op = "store_masked" =>
    /\ \A c \in Cells :
         ActiveAddressing(ptrs, m, c) = {} => mem[c] = last.mem0[c]
    /\ \A c \in Cells : \A i \in Lanes :
         ActiveAddressing(ptrs, m, c) = {i} => mem[c] = vec_get(gv, i)
    /\ gv = last.u
    /\ ptrs = last.v
    /\ m = last.mask
C19_Witness ==
  /\ last.op = "store_masked"
  /\ \E c \in Cells : /\ Addressing(ptrs, c) # {}
                      /\ ActiveAddressing(ptrs, m, c) = {}
                      /\ \E i \in Addressing(ptrs, c) : vec_get(gv, i) # last.mem0[c]
  /\ \E c \in Cells : \E i \in Lanes : /\ ActiveAddressing(ptrs, m, c) = {i}
                                       /\ mem[c] # last.mem0[c]

\* C20: the default loader accesses memory in ascending lane order: a cell
\* that several lanes address holds, after store, src[j] for the highest lane
\* j addressing it, and after store_masked, src[j] for the highest active
\* lane j addressing it.
C20_HighestLaneWins ==
  /\ last.op = "store" =>
       \A c \in Cells : Addressing(ptrs, c) # {} =>
          mem[c] = vec_get(gv, Highest(Addressing(ptrs, c)))
  /\ last.op = "store_masked" =>
       \A c \in Cells : ActiveAddressing(ptrs, m, c) # {} =>
          mem[c] = vec_get(gv, Highest(ActiveAddressing(ptrs, m, c)))
C20_Witness ==
  /\ last.op = "store_masked"
  /\ \E c \in Cells :
       /\ Cardinality(ActiveAddressing(ptrs, m, c)) >= 2
       /\ Highest(ActiveAddressing(ptrs, m, c)) # Highest(Addressing(ptrs, c))
       /\ \A i \in Addressing(ptrs, c) :
            i # Highest(ActiveAddressing(ptrs, m, c))
              => vec_get(gv, i) # mem[c]

(***************************************************************************)
(* The gather loaders detail::loader<std::int32_t,target::avx2_8> and      *)
(* detail::loader<float,target::avx2_8>, beside the default loader at the   *)
(* same architecture.  A 256-bit register is the function from its eight   *)
(* 32-bit lanes (or, for pointers with RTS_64, the four 64-bit lanes of    *)
(* each of two registers) to their values.                                 *)
(***************************************************************************)
avx2_8_width == 8
Avx2Lanes == 0..(avx2_8_width - 1)
HalfLanes == 0..3

\* vec<bool,target::avx2_8>: lane b as a 32-bit integer, b ? ~0 : 0
avx2_8_mask_lane(b) == IF b THEN 0 - 1 ELSE 0
\* vec<bool,target::avx2_8>::vec(bool a, ..., bool h)
avx2_8_mask_of(bs) == [i \in Avx2Lanes |-> avx2_8_mask_lane(bs[i + 1])]
\* vec<bool,target::avx2_8>::movemask: _mm256_movemask_ps, the sign bits
avx2_8_movemask(mk) == {i \in Avx2Lanes : mk[i] < 0}

\* _mm256_extracti128_si256(x, k) and _mm256_extractf128_ps(x, k)
extract128(x, k) == [j \in HalfLanes |-> x[4 * k + j]]
\* v.m[k]: the k-th register of a pointer vector with 64-bit pointers
pointers_m(v, k) == [j \in HalfLanes |-> v[4 * k + j]]
\* u.l = x and u.h = x on the union of m, struct { l, h } and d[8]
assign_l(u, x) == [i \in Avx2Lanes |-> IF i < 4 THEN x[i] ELSE u[i]]
assign_h(u, x) == [i \in Avx2Lanes |-> IF i >= 4 THEN x[i - 4] ELSE u[i]]

\* _mm256_mask_i64gather_epi32 / _ps (src, base, vindex, mask, scale)
mask_i64gather(memory, src, base, vindex, mask, scale) ==
  [j \in HalfLanes |-> IF mask[j] < 0 THEN memory[base + vindex[j] * scale]
                                      ELSE src[j]]
\* _mm256_i64gather_epi32 / _ps (base, vindex, scale)
i64gather(memory, base, vindex, scale) ==
  [j \in HalfLanes |-> memory[base + vindex[j] * scale]]
\* _mm256_mask_i32gather_epi32 / _ps (src, base, vindex, mask, scale)
mask_i32gather(memory, src, base, vindex, mask, scale) ==
  [i \in Avx2Lanes |-> IF mask[i] < 0 THEN memory[base + vindex[i] * scale]
                                      ELSE src[i]]
\* _mm256_i32gather_epi32 / _ps (base, vindex, scale)
i32gather(memory, base, vindex, scale) ==
  [i \in Avx2Lanes |-> memory[base + vindex[i] * scale]]

\* a faulty gather: the high half is gathered through the low pointers
loader_int32_load_masked_low_pointers(u, memory, v, mk, is64) ==
  IF is64
    THEN LET u1 == assign_h(u, mask_i64gather(memory, extract128(u, 1), 0,
                                 pointers_m(v, 0), extract128(mk, 1), 1))
         IN  assign_l(u1, mask_i64gather(memory, extract128(u1, 0), 0,
                                 pointers_m(v, 0), extract128(mk, 0), 1))
    ELSE mask_i32gather(memory, u, 0, v, mk, 1)
\* loader<std::int32_t,avx2_8>::load_masked: u.h, then u.l
loader_int32_load_masked(u, memory, v, mk, is64) ==
  IF is64
    THEN LET u1 == assign_h(u, mask_i64gather(memory, extract128(u, 1), 0,
                                 pointers_m(v, 1), extract128(mk, 1), 1))
         IN  assign_l(u1, mask_i64gather(memory, extract128(u1, 0), 0,
                                 pointers_m(v, 0), extract128(mk, 0), 1))
    ELSE mask_i32gather(memory, u, 0, v, mk, 1)
\* loader<std::int32_t,avx2_8>::load: u.h, then u.l
loader_int32_load(u, memory, v, is64) ==
  IF is64
    THEN LET u1 == assign_h(u, i64gather(memory, 0, pointers_m(v, 1), 1))
         IN  assign_l(u1, i64gather(memory, 0, pointers_m(v, 0), 1))
    ELSE i32gather(memory, 0, v, 1)
\* loader<float,avx2_8>::load_masked: u.l, then u.h
loader_float_load_masked(u, memory, v, mk, is64) ==
  IF is64
    THEN LET u1 == assign_l(u, mask_i64gather(memory, extract128(u, 0), 0,
                                 pointers_m(v, 0), extract128(mk, 0), 1))
         IN  assign_h(u1, mask_i64gather(memory, extract128(u1, 1), 0,
                                 pointers_m(v, 1), extract128(mk, 1), 1))
    ELSE mask_i32gather(memory, u, 0, v, mk, 1)
\* loader<float,avx2_8>::load: u.l, then u.h
loader_float_load(u, memory, v, is64) ==
  IF is64
    THEN LET u1 == assign_l(u, i64gather(memory, 0, pointers_m(v, 0), 1))
         IN  assign_h(u1, i64gather(memory, 0, pointers_m(v, 1), 1))
    ELSE i32gather(memory, 0, v, 1)

\* base_loader<T,avx2_8>::load_masked: foreach_active over movemask(m)
avx2_8_base_load_masked(u, memory, v, mk) ==
  put_each(u, memory, v, foreach_active_loop(avx2_8_movemask(mk)))
\* base_loader<T,avx2_8>::load: for (int i=0;i<arch::width;++i)
avx2_8_base_load(u, memory, v) ==
  put_each(u, memory, v, [k \in 1..avx2_8_width |-> k - 1])

(***************************************************************************)
(* SpecGather: one load or masked load at target::avx2_8 through the       *)
(* gather loader of std::int32_t or float, with the default loader run on  *)
(* the same arguments beside it.                                           *)
(***************************************************************************)
GatherCells == 0..(avx2_8_width + 1)
gather_memory == [c \in GatherCells |-> 100 * (c + 1)]
\* pointer vectors filled lane by lane with put
GatherPointers ==
  {[i \in Avx2Lanes |-> base + i] : base \in 0..1}
    \cup {[i \in Avx2Lanes |-> a] : a \in 0..1}
    \cup {vec_put([i \in Avx2Lanes |-> i], j, avx2_8_width + 1) : j \in Avx2Lanes}
\* destinations: vec(std::int32_t i) and the eight-argument constructor
GatherDestinations ==
  {[i \in Avx2Lanes |-> x] : x \in Val} \cup {[i \in Avx2Lanes |-> i]}
GatherMasks == {avx2_8_mask_of(bs) : bs \in [1..avx2_8_width -> BOOLEAN]}

GatherFrame == UNCHANGED <<rts_64, mem, ptrs, m, ndebug, aborted, arr, p, q, visited>>

InitGather ==
  /\ ndebug = FALSE
  /\ rts_64 \in BOOLEAN
  /\ mem = gather_memory
  /\ ptrs \in GatherPointers
  /\ aborted = FALSE
  /\ arr = [n \in 0..(NVec - 1) |-> vec_bool_default]
  /\ m \in GatherMasks
  /\ gv \in GatherDestinations
  /\ p = make_vptr(0, 0)
  /\ q = make_vptr(0, 0)
  /\ pc = "ready"
  /\ visited = <<>>
  /\ last = NoOp

\* loader<T,avx2_8>::load_masked(gv, ptrs, m), T std::int32_t or float
GatherLoadMasked(T) ==
  /\ pc = "ready"
  /\ gv' = IF T = "int32" THEN loader_int32_load_masked(gv, mem, ptrs, m, rts_64)
                          ELSE loader_float_load_masked(gv, mem, ptrs, m, rts_64)
  /\ last' = [op |-> "load_masked", T |-> T, mem0 |-> mem, dst0 |-> gv,
              by_default |-> avx2_8_base_load_masked(gv, mem, ptrs, m)]
  /\ pc' = "done"
  /\ GatherFrame

\* loader<T,avx2_8>::load(gv, ptrs), T std::int32_t or float
GatherLoad(T) ==
  /\ pc = "ready"
  /\ gv' = IF T = "int32" THEN loader_int32_load(gv, mem, ptrs, rts_64)
                          ELSE loader_float_load(gv, mem, ptrs, rts_64)
  /\ last' = [op |-> "load", T |-> T, mem0 |-> mem, dst0 |-> gv,
              by_default |-> avx2_8_base_load(gv, mem, ptrs)]
  /\ pc' = "done"
  /\ GatherFrame

NextGather ==
  \/ \E T \in {"int32", "float"} : GatherLoadMasked(T)
  \/ \E T \in {"int32", "float"} : GatherLoad(T)

SpecGather == InitGather /\ [][NextGather]_vars

\* C21: the gather loaders of std::int32_t and float at avx2_8 leave the
\* destination vector and the memory as the default per-lane load and
\* load_masked leave them, with 32-bit pointers and with 64-bit pointers,
\* where the gather is split into lanes 0..3 and lanes 4..7 and int32 issues
\* the high half first while float issues the low half first.
C21_GatherEqualsDefault ==
  last.op \in {"load", "load_masked"} =>
    /\ gv = last.by_default
    /\ mem = last.mem0
C21_Witness ==
  /\ last.op = "load_masked"
  /\ last.T = "int32"
  /\ rts_64
  /\ \E i, j \in Avx2Lanes : /\ i < 4 /\ j >= 4
                             /\ m[i] < 0 /\ m[j] < 0
                             /\ gv[i] # last.dst0[i] /\ gv[j] # last.dst0[j]
                             /\ gv[i] # gv[j]
  /\ \E i, j \in Avx2Lanes : i < 4 /\ j >= 4 /\ m[i] = 0 /\ m[j] = 0

(***************************************************************************)
(* The free operators on vec<T,A> generated by RTS_BINOP_LHS and           *)
(* RTS_BINOP_RHS, for T = int: the scalar operators of C++ on int, and the *)
(* lane loops that apply them.                                             *)
(***************************************************************************)
\* x & y, x | y, x ^ y on int, in two's complement
RECURSIVE bit_and_int(_, _)
bit_and_int(x, y) ==
  IF x = 0 \/ y = 0 THEN 0
  ELSE IF x = 0 - 1 THEN y
  ELSE IF y = 0 - 1 THEN x
  ELSE (x % 2) * (y % 2) + 2 * bit_and_int(x \div 2, y \div 2)
RECURSIVE bit_or_int(_, _)
bit_or_int(x, y) ==
  IF x = 0 THEN y
  ELSE IF y = 0 THEN x
  ELSE IF x = 0 - 1 \/ y = 0 - 1 THEN 0 - 1
  ELSE (IF x % 2 = 1 \/ y % 2 = 1 THEN 1 ELSE 0) + 2 * bit_or_int(x \div 2, y \div 2)
\* ~x on int
bit_not_int(x) == IF x >= 0 THEN (0 - x) - 1 ELSE 0 - (x + 1)
RECURSIVE bit_xor_int(_, _)
bit_xor_int(x, y) ==
  IF x = 0 THEN y
  ELSE IF y = 0 THEN x
  ELSE IF x = 0 - 1 THEN bit_not_int(y)
  ELSE IF y = 0 - 1 THEN bit_not_int(x)
  ELSE (((x % 2) + (y % 2)) % 2) + 2 * bit_xor_int(x \div 2, y \div 2)

ArithmeticOps == {"+", "-", "*", "/", "<<", ">>", "&", "|", "^"}
BooleanOps == {"&&", "||", "==", "!=", "<", "<=", ">", ">="}
\* the operators RTS_BINOP generates with a scalar on the left as well
BothSidesOps == (ArithmeticOps \cup BooleanOps) \ {"<<", ">>"}

\* x op y on two int values; the comparisons and && || give a bool
scalar_op(o, x, y) ==
  CASE o = "+"  -> x + y
    [] o = "-"  -> x - y
    [] o = "*"  -> x * y
    [] o = "/"  -> cdiv(x, y)
    [] o = "<<" -> x * 2 ^ y
    [] o = ">>" -> IF y < 31 THEN x \div 2 ^ y ELSE IF x < 0 THEN 0 - 1 ELSE 0
    [] o = "&"  -> bit_and_int(x, y)
    [] o = "|"  -> bit_or_int(x, y)
    [] o = "^"  -> bit_xor_int(x, y)
    [] o = "&&" -> (x # 0) /\ (y # 0)
    [] o = "||" -> (x # 0) \/ (y # 0)
    [] o = "==" -> x = y
    [] o = "!=" -> x # y
    [] o = "<"  -> x < y
    [] o = "<=" -> x <= y
    [] o = ">"  -> x > y
    [] o = ">=" -> x >= y
\* x op y is defined on int: no division by zero, a shift count in [0,32),
\* and a left shift of a non-negative value whose result fits an int
scalar_op_defined(o, x, y) ==
  CASE o = "/"  -> y # 0
    [] o = "<<" -> /\ x >= 0 /\ y >= 0 /\ y < 32
                   /\ (x = 0 \/ (y < 31 /\ x <= 2147483647 \div 2 ^ y))
    [] o = ">>" -> y >= 0 /\ y < 32
    [] OTHER -> TRUE

\* vec<decltype(l.get(0) op r.get(0)),A> result: the mask vector for bool,
\* vec<int,A> otherwise; and result.put(i, x)
result_default(o) == IF o \in BooleanOps THEN vec_bool_default ELSE vec_default
result_put(o, result, i, x) ==
  IF o \in BooleanOps THEN vec_bool_put(result, i, x) ELSE vec_put(result, i, x)
result_get(o, result, i) ==
  IF o \in BooleanOps THEN vec_bool_get(result, i) ELSE vec_get(result, i)

\* for (int i=0;i<A::width;++i) result.put(i, l.get(i) op r.get(i)), from
\* lane i on
RECURSIVE binop_vv_loop(_, _, _, _, _)
binop_vv_loop(o, l, r, i, result) ==
  IF i < width
    THEN binop_vv_loop(o, l, r, i + 1,
           result_put(o, result, i, scalar_op(o, vec_get(l, i), vec_get(r, i))))
    ELSE result
\* for (int i=0;i<A::width;++i) result.put(i, l.get(i) op r)
RECURSIVE binop_vs_loop(_, _, _, _, _)
binop_vs_loop(o, l, r, i, result) ==
  IF i < width
    THEN binop_vs_loop(o, l, r, i + 1,
           result_put(o, result, i, scalar_op(o, vec_get(l, i), r)))
    ELSE result
\* for (int i=0;i<A::width;++i) result.put(i, l op r.get(i))
RECURSIVE binop_sv_loop(_, _, _, _, _)
binop_sv_loop(o, l, r, i, result) ==
  IF i < width
    THEN binop_sv_loop(o, l, r, i + 1,
           result_put(o, result, i, scalar_op(o, l, vec_get(r, i))))
    ELSE result

\* a faulty operator: every result lane is computed from lane 0 of r
binop_vv_uses_lane0(o, l, r) ==
  binop_vv_loop(o, l, [i \in Lanes |-> vec_get(r, 0)], 0, result_default(o))
\* operator op (const vec<T,A> & l, const vec<U,A> & r)
binop_vv(o, l, r) == binop_vv_loop(o, l, r, 0, result_default(o))
\* operator op (const vec<T,A> & l, U r)
binop_vs(o, l, r) == binop_vs_loop(o, l, r, 0, result_default(o))
\* operator op (T l, const vec<U,A> & r)
binop_sv(o, l, r) == binop_sv_loop(o, l, r, 0, result_default(o))

(***************************************************************************)
(* SpecOps: one vector gv combined by each operator with a vector or a     *)
(* scalar, on either side.                                                 *)
(***************************************************************************)
OpScalars == (0 - MaxVal)..(MaxVal + 1)
\* operand vectors: broadcast, and initializer lists x, x+1, ... and
\* 10, 20, ...
OpVectors ==
  {vec_broadcast(x) : x \in OpScalars}
    \cup {[i \in Lanes |-> x + i] : x \in OpScalars}
    \cup {[i \in Lanes |-> 10 * (i + 1)]}

OpsFrame == UNCHANGED <<rts_64, mem, ptrs, ndebug, aborted, arr, m, gv, p, q, visited>>

InitOps ==
  /\ ndebug = FALSE
  /\ rts_64 = TRUE
  /\ mem = no_memory
  /\ ptrs = vec_default
  /\ aborted = FALSE
  /\ arr = [n \in 0..(NVec - 1) |-> vec_bool_default]
  /\ m = vec_bool_default
  /\ gv \in OpVectors
  /\ p = make_vptr(0, 0)
  /\ q = make_vptr(0, 0)
  /\ pc = "ops"
  /\ visited = <<>>
  /\ last = NoOp

\* ret = gv op r, r a vector
VecOpVec(o, r) ==
  /\ pc = "ops"
  /\ pc' = "done"
  /\ \A i \in Lanes : scalar_op_defined(o, vec_get(gv, i), vec_get(r, i))
  /\ last' = [op |-> o, form |-> "vv", l |-> gv, r |-> r, ret |-> binop_vv(o, gv, r)]
  /\ OpsFrame

\* ret = gv op s, s a scalar
VecOpScalar(o, s) ==
  /\ pc = "ops"
  /\ pc' = "done"
  /\ \A i \in Lanes : scalar_op_defined(o, vec_get(gv, i), s)
  /\ last' = [op |-> o, form |-> "vs", l |-> gv, r |-> s, ret |-> binop_vs(o, gv, s)]
  /\ OpsFrame

\* ret = s op gv, s a scalar
ScalarOpVec(o, s) ==
  /\ pc = "ops"
  /\ pc' = "done"
  /\ o \in BothSidesOps
  /\ \A i \in Lanes : scalar_op_defined(o, s, vec_get(gv, i))
  /\ last' = [op |-> o, form |-> "sv", l |-> s, r |-> gv, ret |-> binop_sv(o, s, gv)]
  /\ OpsFrame

NextOps ==
  \/ \E o \in ArithmeticOps \cup BooleanOps, r \in OpVectors : VecOpVec(o, r)
  \/ \E o \in ArithmeticOps \cup BooleanOps, s \in OpScalars : VecOpScalar(o, s)
  \/ \E o \in BothSidesOps, s \in OpScalars : ScalarOpVec(o, s)

SpecOps == InitOps /\ [][NextOps]_vars

\* C23: for every binary operator and every lane i, (lhs op rhs)[i] is
\* lhs[i] op rhs[i], (lhs op s)[i] is lhs[i] op s and (s op rhs)[i] is
\* s op rhs[i]; the operand vector is unchanged; 1,2,3,4 + 10,20,30,40 on
\* the first four lanes is 11,22,33,44.
C23_OperatorsAreElementwise ==
  /\ last.op \in ArithmeticOps \cup BooleanOps =>
       /\ last.form = "vv" =>
            /\ last.l = gv
            /\ \A i \in Lanes : result_get(last.op, last.ret, i)
                 = scalar_op(last.op, vec_get(last.l, i), vec_get(last.r, i))
       /\ last.form = "vs" =>
            /\ last.l = gv
            /\ \A i \in Lanes : result_get(last.op, last.ret, i)
                 = scalar_op(last.op, vec_get(last.l, i), last.r)
       /\ last.form = "sv" =>
            /\ last.r = gv
            /\ \A i \in Lanes : result_get(last.op, last.ret, i)
                 = scalar_op(last.op, last.l, vec_get(last.r, i))
  /\ (/\ last.op = "+" /\ last.form = "vv"
      /\ last.l = [i \in Lanes |-> 1 + i]
      /\ last.r = [i \in Lanes |-> 10 * (i + 1)])
       => \A i \in 0..3 : vec_get(last.ret, i) = 11 * (i + 1)
C23_Witness ==
  /\ last.op = "+"
  /\ last.form = "vv"
  /\ last.l = [i \in Lanes |-> 1 + i]
  /\ last.r = [i \in Lanes |-> 10 * (i + 1)]
  /\ vec_get(last.ret, 3) = 44

(***************************************************************************)
(* Calls that no build accepts.  A function template's exception           *)
(* specification and body are instantiated when the function is called; an *)
(* ill-formed expression in either makes the call an error, and the        *)
(* program holding it is never built.                                      *)
(***************************************************************************)
\* a reference of type X & binds to a non-const lvalue of X, not to a const
\* lvalue and not to a prvalue
binds_nonconst_ref(arg) == arg = "lvalue"

\* load(pointers): noexcept(detail::loader<T,A>::load(vec<T,A>(), pointers))
\* passes the prvalue vec<T,A>() to base_loader::load(vector & u, pointers v)
load_is_well_formed == binds_nonconst_ref("prvalue")

\* vec<T&,A>::operator= and the compound assignments are const members that
\* return *this, a const lvalue, as vec &
refvec_return_is_well_formed == binds_nonconst_ref("const lvalue")

(***************************************************************************)
(* SpecRefVec: a reference vector vec<T&,A> r over the pointer vector      *)
(* ptrs: conversion to a value vector, assignment and compound assignment. *)
(***************************************************************************)
CompoundOps == {"+", "-", "*", "/", "&", "|", "<<", ">>"}

\* vec<T&,A>::operator vec<T,A>(): return load(pointers)
refvec_convert(memory, pointers) == load(memory, pointers)
\* vec<T&,A>::operator=(const vec<T,A> & t): store(pointers, t)
refvec_assign(memory, pointers, t) == store(memory, pointers, t)
\* vec<T&,A>::operator op=(U t): store(pointers, load(pointers) op t)
refvec_compound(o, memory, pointers, t, t_is_vector) ==
  store(memory, pointers,
        IF t_is_vector THEN binop_vv(o, load(memory, pointers), t)
                       ELSE binop_vs(o, load(memory, pointers), t))

InitRefVec ==
  /\ ndebug = FALSE
  /\ rts_64 = TRUE
  /\ mem = initial_memory
  /\ ptrs \in PointerVectors
  /\ aborted = FALSE
  /\ arr = [n \in 0..(NVec - 1) |-> vec_bool_default]
  /\ m = vec_bool_default
  /\ gv \in ValueVectors
  /\ p = make_vptr(0, 0)
  /\ q = make_vptr(0, 0)
  /\ pc = "ready"
  /\ visited = <<>>
  /\ last = NoOp

\* vec<T,A> x = r
RefConvert ==
  /\ pc = "ready"
  /\ last' = IF load_is_well_formed
               THEN [op |-> "convert", built |-> TRUE, mem0 |-> mem,
                     ret |-> refvec_convert(mem, ptrs)]
               ELSE [op |-> "convert", built |-> FALSE, mem0 |-> mem]
  /\ pc' = "done"
  /\ UNCHANGED <<mem, ptrs, gv, m>>
  /\ LoadFrame

\* r = gv
RefAssign ==
  /\ pc = "ready"
  /\ mem' = IF refvec_return_is_well_formed
              THEN refvec_assign(mem, ptrs, gv) ELSE mem
  /\ last' = [op |-> "assign", built |-> refvec_return_is_well_formed, mem0 |-> mem]
  /\ pc' = "done"
  /\ UNCHANGED <<ptrs, gv, m>>
  /\ LoadFrame

\* r op= t, with t a scalar or a vector
RefCompound(o, t, t_is_vector) ==
  /\ pc = "ready"
  /\ o \in CompoundOps
  /\ \A i \in Lanes :
       scalar_op_defined(o, mem[vec_get(ptrs, i)],
                         IF t_is_vector THEN vec_get(t, i) ELSE t)
  /\ mem' = IF load_is_well_formed /\ refvec_return_is_well_formed
              THEN refvec_compound(o, mem, ptrs, t, t_is_vector) ELSE mem
  /\ last' = [op |-> "compound", o |-> o, t |-> t, t_is_vector |-> t_is_vector,
              built |-> load_is_well_formed /\ refvec_return_is_well_formed,
              mem0 |-> mem, v |-> ptrs]
  /\ pc' = "done"
  /\ UNCHANGED <<ptrs, gv, m>>
  /\ LoadFrame

NextRefVec ==
  \/ RefConvert
  \/ RefAssign
  \/ \E o \in CompoundOps, t \in OpScalars : RefCompound(o, t, FALSE)
  \/ \E o \in CompoundOps, t \in OpVectors : RefCompound(o, t, TRUE)

SpecRefVec == InitRefVec /\ [][NextRefVec]_vars

\* C22: over a pointer vector P with pairwise distinct addresses, converting
\* r to a value vector returns load(P); r = v performs store(P, v); r op= t
\* leaves each addressed cell holding its old value op t (lane i of t for a
\* vector t), and leaves P and all memory not addressed by P unchanged.
C22_ReferenceVectorLoadsAndStores ==
  PairwiseDistinct(ptrs) =>
    /\ last.op = "convert" =>
         /\ last.built
         /\ \A i \in Lanes : vec_get(last.ret, i) = last.mem0[vec_get(ptrs, i)]
    /\ last.op = "assign" =>
         /\ last.built
         /\ \A i \in Lanes : mem[vec_get(ptrs, i)] = vec_get(gv, i)
         /\ \A c \in Cells : Addressing(ptrs, c) = {} => mem[c] = last.mem0[c]
    /\ last.op = "compound" =>
         /\ last.built
         /\ \A i \in Lanes : mem[vec_get(ptrs, i)]
              = scalar_op(last.o, last.mem0[vec_get(ptrs, i)],
                          IF last.t_is_vector THEN vec_get(last.t, i) ELSE last.t)
         /\ \A c \in Cells : Addressing(ptrs, c) = {} => mem[c] = last.mem0[c]
         /\ ptrs = last.v

(***************************************************************************)
(* vec<std::int32_t,target::avx_4> and vec<std::int32_t,target::avx2_8>:   *)
(* the operators generated by RTS_DEF_BINOP and RTS_DEF_SHIFT.  A lane is  *)
(* the set of the set bits of its 32-bit word.                             *)
(***************************************************************************)
avx_4_width == 4
INT32_MAX == 2147483647
INT32_MIN == 0 - INT32_MAX - 1
Bits32 == 0..31

\* byte k of a word, as a number, and the word of four bytes
byte_of(x, k) == Value({b - 8 * k : b \in {c \in x : c \div 8 = k}})
nonneg_to_bits(v) == {b \in 0..30 : (v \div 2 ^ b) % 2 = 1}
word_of_bytes(r) == UNION {{8 * k + e : e \in nonneg_to_bits(r[k + 1])} : k \in 0..3}
\* the std::int32_t value of a word and the word of a value
bits_to_int(x) ==
  byte_of(x, 0) + 2 ^ 8 * byte_of(x, 1) + 2 ^ 16 * byte_of(x, 2)
    + 2 ^ 24 * (byte_of(x, 3) - (IF 31 \in x THEN 2 ^ 8 ELSE 0))
int_to_bits(v) == IF v >= 0 THEN nonneg_to_bits(v)
                            ELSE Bits32 \ nonneg_to_bits(0 - (v + 1))

\* the sum of two words and a carry, modulo 2^32, byte by byte
add_bytes(a, b, carry) ==
  LET c0 == byte_of(a, 0) + byte_of(b, 0) + carry
      c1 == byte_of(a, 1) + byte_of(b, 1) + c0 \div 2 ^ 8
      c2 == byte_of(a, 2) + byte_of(b, 2) + c1 \div 2 ^ 8
      c3 == byte_of(a, 3) + byte_of(b, 3) + c2 \div 2 ^ 8
  IN  word_of_bytes(<<c0 % 2 ^ 8, c1 % 2 ^ 8, c2 % 2 ^ 8, c3 % 2 ^ 8>>)
\* one lane of _mm_add_epi32 / _mm256_add_epi32
add_epi32(a, b) == add_bytes(a, b, 0)
\* one lane of _mm_sub_epi32 / _mm256_sub_epi32
sub_epi32(a, b) == add_bytes(a, Bits32 \ b, 1)
\* one lane of _mm_slli_epi32 / _mm256_slli_epi32: zeros shifted in
slli_epi32(a, count) == {b + count : b \in a} \cap Bits32
\* one lane of _mm_srli_epi32 / _mm256_srli_epi32: zeros shifted in
srli_epi32(a, count) == {b - count : b \in a} \cap Bits32
\* one lane of _mm_mullo_epi32 / _mm256_mullo_epi32: the low 32 bits of the
\* product, by long multiplication on the bytes of the words
mullo_epi32(a, b) ==
  LET c0 == byte_of(a, 0) * byte_of(b, 0)
      c1 == byte_of(a, 0) * byte_of(b, 1) + byte_of(a, 1) * byte_of(b, 0)
              + c0 \div 2 ^ 8
      c2 == byte_of(a, 0) * byte_of(b, 2) + byte_of(a, 1) * byte_of(b, 1)
              + byte_of(a, 2) * byte_of(b, 0) + c1 \div 2 ^ 8
      c3 == byte_of(a, 0) * byte_of(b, 3) + byte_of(a, 1) * byte_of(b, 2)
              + byte_of(a, 2) * byte_of(b, 1) + byte_of(a, 3) * byte_of(b, 0)
              + c2 \div 2 ^ 8
  IN  word_of_bytes(<<c0 % 2 ^ 8, c1 % 2 ^ 8, c2 % 2 ^ 8, c3 % 2 ^ 8>>)

\* fun(m, rhs.m) of RTS_DEF_BINOP, lane by lane of the register
def_binop(o, mm, rhs) ==
  [i \in DOMAIN mm |->
     CASE o = "+" -> add_epi32(mm[i], rhs[i])
       [] o = "-" -> sub_epi32(mm[i], rhs[i])
       [] o = "*" -> mullo_epi32(mm[i], rhs[i])
       [] o = "&" -> mm[i] \cap rhs[i]
       [] o = "|" -> mm[i] \cup rhs[i]
       [] o = "^" -> bit_xor(mm[i], rhs[i])]
\* fun(m, rhs) of RTS_DEF_SHIFT: _mm_slli_epi32 for <<, _mm_srli_epi32 for >>
def_shift(o, mm, rhs) ==
  [i \in DOMAIN mm |->
     IF o = "<<" THEN slli_epi32(mm[i], rhs) ELSE srli_epi32(mm[i], rhs)]

(***************************************************************************)
(* The scalar operators of the generic form on std::int32_t values, with   *)
(* wrap-around modulo 2^32, computed on numbers.                           *)
(***************************************************************************)
wrap_add(x, y) ==
  IF x >= 0 /\ y > 0 /\ x > INT32_MAX - y THEN ((x + INT32_MIN) + y) + INT32_MIN
  ELSE IF x < 0 /\ y < 0 /\ x < INT32_MIN - y THEN ((x - INT32_MIN) + y) - INT32_MIN
  ELSE x + y
wrap_neg(x) == IF x = INT32_MIN THEN INT32_MIN ELSE 0 - x
wrap_sub(x, y) == wrap_add(x, wrap_neg(y))
\* x * 2^k modulo 2^32: the low 31 - k bits move up, bit 31 - k is the sign
wrap_shl(x, k) ==
  IF k = 0 THEN x
  ELSE IF k = 31 THEN (IF x % 2 = 1 THEN INT32_MIN ELSE 0)
  ELSE (x % 2 ^ (31 - k)) * 2 ^ k
         + (IF (x \div 2 ^ (31 - k)) % 2 = 1 THEN INT32_MIN ELSE 0)
\* x * d for a hexadecimal digit d
wrap_mul_digit(x, d) ==
  wrap_add(wrap_add(IF d % 2 = 1 THEN x ELSE 0,
                    IF (d \div 2) % 2 = 1 THEN wrap_shl(x, 1) ELSE 0),
           wrap_add(IF (d \div 4) % 2 = 1 THEN wrap_shl(x, 2) ELSE 0,
                    IF (d \div 8) % 2 = 1 THEN wrap_shl(x, 3) ELSE 0))
\* x * y for y >= 0, digit by digit of y
RECURSIVE wrap_mul_nonneg(_, _)
wrap_mul_nonneg(x, y) ==
  IF y = 0 THEN 0
  ELSE wrap_add(wrap_mul_digit(x, y % 16), wrap_shl(wrap_mul_nonneg(x, y \div 16), 4))
wrap_mul(x, y) ==
  IF y >= 0 THEN wrap_mul_nonneg(x, y)
  ELSE IF y = INT32_MIN THEN wrap_shl(x, 31)
  ELSE wrap_neg(wrap_mul_nonneg(x, 0 - y))
\* x >> k on a signed value: the sign is shifted in
arithmetic_shr(x, k) == IF k >= 31 THEN (IF x < 0 THEN 0 - 1 ELSE 0) ELSE x \div 2 ^ k

\* l.get(i) op r.get(i) of the generic vec<std::int32_t,A>
int32_scalar_op(o, x, y) ==
  CASE o = "+"  -> wrap_add(x, y)
    [] o = "-"  -> wrap_sub(x, y)
    [] o = "*"  -> wrap_mul(x, y)
    [] o = "&"  -> bit_and_int(x, y)
    [] o = "|"  -> bit_or_int(x, y)
    [] o = "^"  -> bit_xor_int(x, y)
    [] o = "<<" -> wrap_shl(x, y)
    [] o = ">>" -> arithmetic_shr(x, y)

(***************************************************************************)
(* Specification SpecAvxInt: one operator applied to an int32 vector of    *)
(* avx_4 or avx2_8.  gv holds the register of the left operand.            *)
(***************************************************************************)
IntBinOps == {"+", "-", "*", "&", "|", "^"}
IntShiftOps == {"<<", ">>"}
ShiftCounts == 0..31
\* lane values: the extremes of std::int32_t and small values of both signs
IntLaneValues == <<INT32_MIN, 0 - 8, 0 - 1, 0, 1, 7, INT32_MAX, 100>>
\* vec(std::int32_t i): d{i,i,...}
int32_broadcast(w, x) == [i \in 0..(w - 1) |-> int_to_bits(x)]
\* vec(a, b, c, ...): d{a,b,c,...}, the lane values taken in turn from k on
int32_list(w, k) == [i \in 0..(w - 1) |-> int_to_bits(IntLaneValues[((i + k) % 8) + 1])]
IntVectors(w) ==
  {int32_broadcast(w, IntLaneValues[k]) : k \in 1..8} \cup {int32_list(w, k) : k \in 0..7}
\* get(i): d[i]
int32_get(v, i) == bits_to_int(v[i])

AvxIntFrame == UNCHANGED <<rts_64, mem, ptrs, ndebug, aborted, arr, m, p, q, visited>>

InitAvxInt ==
  /\ ndebug = FALSE
  /\ rts_64 = TRUE
  /\ mem = no_memory
  /\ ptrs = vec_default
  /\ aborted = FALSE
  /\ arr = [n \in 0..(NVec - 1) |-> vec_bool_default]
  /\ m = vec_bool_default
  /\ gv \in IntVectors(avx_4_width) \cup IntVectors(avx2_8_width)
  /\ p = make_vptr(0, 0)
  /\ q = make_vptr(0, 0)
  /\ pc = "ready"
  /\ visited = <<>>
  /\ last = NoOp

\* ret = gv op rhs: vec(fun(m, rhs.m), internal_tag)
IntBinary(o, rhs) ==
  /\ pc = "ready"
  /\ DOMAIN rhs = DOMAIN gv
  /\ pc' = "done"
  /\ last' = [op |-> o, compound |-> FALSE, l |-> gv, r |-> rhs,
              ret |-> def_binop(o, gv, rhs)]
  /\ UNCHANGED gv
  /\ AvxIntFrame

\* gv op= rhs: m = fun(m, rhs.m); return *this
IntBinaryAssign(o, rhs) ==
  /\ pc = "ready"
  /\ DOMAIN rhs = DOMAIN gv
  /\ pc' = "done"
  /\ gv' = def_binop(o, gv, rhs)
  /\ last' = [op |-> o, compound |-> TRUE, l |-> gv, r |-> rhs, ret |-> gv']
  /\ AvxIntFrame

\* ret = gv op count: auto r = fun(m, rhs); vec(r, internal_tag)
IntShift(o, count) ==
  /\ pc = "ready"
  /\ pc' = "done"
  /\ last' = [op |-> o, compound |-> FALSE, l |-> gv, r |-> count,
              ret |-> def_shift(o, gv, count)]
  /\ UNCHANGED gv
  /\ AvxIntFrame

\* gv op= count: m = fun(m, rhs); return *this
IntShiftAssign(o, count) ==
  /\ pc = "ready"
  /\ pc' = "done"
  /\ gv' = def_shift(o, gv, count)
  /\ last' = [op |-> o, compound |-> TRUE, l |-> gv, r |-> count, ret |-> gv']
  /\ AvxIntFrame

NextAvxInt ==
  \/ \E o \in IntBinOps, w \in {avx_4_width, avx2_8_width} :
       \E rhs \in IntVectors(w) : IntBinary(o, rhs)
  \/ \E o \in IntBinOps, w \in {avx_4_width, avx2_8_width} :
       \E rhs \in IntVectors(w) : IntBinaryAssign(o, rhs)
  \/ \E o \in IntShiftOps, count \in ShiftCounts : IntShift(o, count)
  \/ \E o \in IntShiftOps, count \in ShiftCounts : IntShiftAssign(o, count)

SpecAvxInt == InitAvxInt /\ [][NextAvxInt]_vars

\* C24: for int32 vectors of avx_4 and avx2_8, each lane of the result of
\* + - * & | ^ << >> and of their compound forms equals the generic scalar
\* operator applied to that lane (wrapping modulo 2^32 for + - *), for every
\* lane value, negative ones included, and every shift count in 0..31; the
\* compound form leaves the result in the left operand.
C24_AvxIntMatchesGeneric ==
  last.op \in IntBinOps \cup IntShiftOps =>
    /\ \A i \in DOMAIN last.l :
         int32_get(last.ret, i)
           = int32_scalar_op(last.op, int32_get(last.l, i),
                             IF last.op \in IntShiftOps THEN last.r
                                                        ELSE int32_get(last.r, i))
    /\ gv = (IF last.compound THEN last.ret ELSE last.l)
\* the part of C24 that holds: every operator but >>, and >> on vectors
\* with no negative lane or with a count of 0
C24_ExceptShiftRightOfNegative ==
  (/\ last.op \in IntBinOps \cup IntShiftOps
   /\ last.op = ">>" => \/ last.r = 0
                        \/ \A i \in DOMAIN last.l : int32_get(last.l, i) >= 0) =>
    /\ \A i \in DOMAIN last.l :
         int32_get(last.ret, i)
           = int32_scalar_op(last.op, int32_get(last.l, i),
                             IF last.op \in IntShiftOps THEN last.r
                                                        ELSE int32_get(last.r, i))
    /\ gv = (IF last.compound THEN last.ret ELSE last.l)

(***************************************************************************)
(* namespace target: the architecture descriptors.  A descriptor is a      *)
(* record of its static members; width_mask is the set of its set bits.    *)
(***************************************************************************)
MaxN == 48

\* detail::ilog2: int r = 0; while (v >>= 1) ++r; return r
RECURSIVE ilog2_loop(_, _)
ilog2_loop(v, r) == IF v \div 2 = 0 THEN r ELSE ilog2_loop(v \div 2, r + 1)
ilog2(v) == ilog2_loop(v, 0)

\* the two static_asserts of generic<N>; N - 1 on size_t is all ones for
\* N = 0, which is what 0 - 1 is in two's complement
generic_asserts(N) == N <= 32 /\ bit_and_int(N, N - 1) = 0

\* the values a build can give 1 << count on int.  A count below the bits
\* of int gives the power of two.  For a larger count the expression is
\* undefined, and a build either rejects the constant expression, or takes
\* the bit to be shifted out, or takes the count modulo 32.
shift_one(count) ==
  IF count < 31 THEN {[defined |-> TRUE, value |-> 2 ^ count]}
  ELSE {[defined |-> FALSE, value |-> 0],
        [defined |-> TRUE, value |-> 0],
        [defined |-> TRUE, value |-> 2 ^ (count % 32)]}
\* (1 << count) - 1 converted to std::uint32_t
mask_below(one) ==
  [defined |-> one.defined,
   bits |-> IF one.defined THEN int_to_bits(one.value - 1) ELSE {}]

\* template <size_t N> struct generic: the descriptors a build can make of
\* generic<N>
generic(N) ==
  IF ~generic_asserts(N)
  THEN {[name |-> "generic", N |-> N, accepted |-> FALSE]}
  ELSE {[name |-> "generic", N |-> N, accepted |-> TRUE,
         width |-> N, width_mask |-> mask_below(one),
         shift |-> ilog2(N),
         shift_mask |-> mask_below(CHOOSE x \in shift_one(ilog2(N)) : TRUE),
         allow_avx |-> FALSE, allow_avx2 |-> FALSE, allow_avx512 |-> FALSE]
          : one \in shift_one(N)}

\* a std::uint32_t constant written as a literal
literal(v) == [defined |-> TRUE, bits |-> int_to_bits(v)]

\* struct avx_4, struct avx2_8, struct avx512_16
avx_4 ==
  [name |-> "avx_4", N |-> avx_4_width, accepted |-> TRUE,
   width |-> avx_4_width, width_mask |-> literal(15), shift |-> 2, shift_mask |-> literal(3),
   allow_avx |-> TRUE, allow_avx2 |-> FALSE, allow_avx512 |-> FALSE]
avx2_8 ==
  [name |-> "avx2_8", N |-> avx2_8_width, accepted |-> TRUE,
   width |-> avx2_8_width, width_mask |-> literal(255), shift |-> 3, shift_mask |-> literal(7),
   allow_avx |-> TRUE, allow_avx2 |-> TRUE, allow_avx512 |-> FALSE]
avx512_16 ==
  [name |-> "avx512_16", N |-> 16, accepted |-> TRUE,
   width |-> 16, width_mask |-> literal(65535), shift |-> 4, shift_mask |-> literal(15),
   allow_avx |-> TRUE, allow_avx2 |-> TRUE, allow_avx512 |-> TRUE]

\* enum class isa, in the order of the feature probe: below avx, avx, avx2,
\* avx512_knl, max_intel, above max_intel
isa_avx == 1
isa_avx2 == 2
isa_avx512_knl == 3
isa_max_intel == 4
Isa == 0..(isa_max_intel + 1)

\* available(isa i) of each descriptor
generic_available(i) == TRUE
\* a faulty avx_4: available from avx512_knl on
avx_4_available_from_avx512(i) == i >= isa_avx512_knl /\ i <= isa_max_intel
avx_4_available(i) == i >= isa_avx /\ i <= isa_max_intel
avx2_8_available(i) == i >= isa_avx2 /\ i <= isa_max_intel
avx512_16_available(i) == i >= isa_avx512_knl /\ i <= isa_max_intel
available(d, i) ==
  CASE d.name = "generic" -> generic_available(i)
    [] d.name = "avx_4" -> avx_4_available(i)
    [] d.name = "avx2_8" -> avx2_8_available(i)
    [] d.name = "avx512_16" -> avx512_16_available(i)

(***************************************************************************)
(* Specification SpecDesc: a descriptor is named (gv holds its members),   *)
(* then its available() is asked for an ISA value.                         *)
(***************************************************************************)
Descriptors == {avx_4, avx2_8, avx512_16} \cup UNION {generic(N) : N \in 0..MaxN}
no_descriptor == [name |-> "none"]

DescFrame == UNCHANGED <<rts_64, mem, ptrs, ndebug, aborted, arr, m, p, q, visited>>

InitDesc ==
  /\ ndebug = FALSE
  /\ rts_64 = TRUE
  /\ mem = no_memory
  /\ ptrs = vec_default
  /\ aborted = FALSE
  /\ arr = [n \in 0..(NVec - 1) |-> vec_bool_default]
  /\ m = vec_bool_default
  /\ gv = no_descriptor
  /\ p = make_vptr(0, 0)
  /\ q = make_vptr(0, 0)
  /\ pc = "ready"
  /\ visited = <<>>
  /\ last = NoOp

\* the program names descriptor d: its static_asserts are checked and its
\* members are initialised
Instantiate(d) ==
  /\ pc = "ready"
  /\ pc' = "named"
  /\ gv' = d
  /\ last' = [op |-> "instantiate"]
  /\ DescFrame

\* gv::available(i)
Available(i) ==
  /\ pc = "named"
  /\ gv.accepted
  /\ pc' = "asked"
  /\ last' = [op |-> "available", i |-> i, ret |-> available(gv, i)]
  /\ UNCHANGED gv
  /\ DescFrame

NextDesc ==
  \/ \E d \in Descriptors : Instantiate(d)
  \/ \E i \in Isa : Available(i)

SpecDesc == InitDesc /\ [][NextDesc]_vars

\* N is a power of two between 1 and 32
IsPowerOfTwoUpTo32(N) == \E k \in 0..5 : N = 2 ^ k

\* C25: for every descriptor (generic<N> for each power of two N in 1..32,
\* and each fixed one), shift is log2(width), shift_mask is width - 1, and
\* width_mask has exactly the bits 0..width-1, width 32 included.
C25_DerivedConstants ==
  (gv.name # "none" /\ IsPowerOfTwoUpTo32(gv.N)) =>
    /\ gv.accepted
    /\ 2 ^ gv.shift = gv.width
    /\ gv.shift_mask.defined
    /\ gv.shift_mask.bits = int_to_bits(gv.width - 1)
    /\ gv.width_mask.defined
    /\ gv.width_mask.bits = {b \in Bits32 : b < gv.width}
\* the part of C25 that holds: every width below 32
C25_BelowWidth32 ==
  (gv.name # "none" /\ IsPowerOfTwoUpTo32(gv.N) /\ gv.N < 32) =>
    /\ gv.accepted
    /\ 2 ^ gv.shift = gv.width
    /\ gv.shift_mask.defined
    /\ gv.shift_mask.bits = int_to_bits(gv.width - 1)
    /\ gv.width_mask.defined
    /\ gv.width_mask.bits = {b \in Bits32 : b < gv.width}

\* C26: each descriptor's available set is an interval of the ISA order,
\* generic is available for every ISA value, what avx512_16 accepts avx2_8
\* accepts and what avx2_8 accepts avx_4 accepts; allow_avx512 implies
\* allow_avx2 implies allow_avx on every descriptor.
C26_AvailableIsMonotonic ==
  (gv.name # "none" /\ gv.accepted) =>
    /\ \A i, j, k \in Isa :
         (i <= j /\ j <= k /\ available(gv, i) /\ available(gv, k)) => available(gv, j)
    /\ gv.name = "generic" => \A i \in Isa : available(gv, i)
    /\ last.op = "available" =>
         /\ last.ret = available(gv, last.i)
         /\ (gv.name = "avx512_16" /\ last.ret) => available(avx2_8, last.i)
         /\ (gv.name = "avx2_8" /\ last.ret) => available(avx_4, last.i)
    /\ \A i \in Isa : /\ available(avx512_16, i) => available(avx2_8, i)
                      /\ available(avx2_8, i) => available(avx_4, i)
    /\ gv.allow_avx512 => gv.allow_avx2
    /\ gv.allow_avx2 => gv.allow_avx
C26_Witness ==
  /\ gv.name = "avx2_8"
  /\ last.op = "available"
  /\ last.i = isa_avx2
  /\ last.ret
  /\ available(avx_4, last.i)
  /\ ~available(avx512_16, last.i)

\* C29: generic<N> is accepted exactly when N is a power of two with
\* 1 <= N <= 32; every other N is rejected.
C29_AcceptedIffPowerOfTwo ==
  gv.name = "generic" => (gv.accepted <=> IsPowerOfTwoUpTo32(gv.N))
\* the part of C29 that holds: every N but 0
C29_ExceptZero ==
  (gv.name = "generic" /\ gv.N # 0) => (gv.accepted <=> IsPowerOfTwoUpTo32(gv.N))

(***************************************************************************)
(* vec<std::complex<T>,A>, vec<std::pair<S,T>,A>, vec<std::tuple<Ts...>,A>:*)
(* one field vector per component.  fields is the sequence of the field    *)
(* vectors (real, imag; first, second; the members of data), an aggregate  *)
(* value is the sequence of its components.                                *)
(***************************************************************************)
\* whether an expression used as a value or as the operand of ++ denotes
\* an object; the name of a function or of a member function does not
denotes_object(expr) == expr = "object"
\* whether unqualified make_pair is found: the name is not declared in
\* namespace rts, so only argument-dependent lookup in the namespaces of
\* the element types S and T can find std::make_pair
make_pair_is_found(S, T) == "std" \in {S, T}
\* whether auto l = { e... } can be deduced: the elements need an object type
list_element_is_object(type) == type # "void"

\* get(int i) of the three composites: the aggregate of the fields' get(i)
complex_get(fields, i) == <<vec_get(fields[1], i), vec_get(fields[2], i)>>
pair_get(fields, i) == <<vec_get(fields[1], i), vec_get(fields[2], i)>>
tuple_get(data, i) == [k \in DOMAIN data |-> vec_get(data[k], i)]
\* make_pair(first.get(i), second.get(i)) in the noexcept and the body
pair_get_is_well_formed(S, T) == make_pair_is_found(S, T)

\* put(int i, v): component k of v into lane i of field k
\* real.put(i, v.real); imag.put(i, v.imag): v.real and v.imag name the
\* member functions of std::complex
complex_put_is_well_formed == denotes_object("member function")
complex_put(fields, i, v) == <<vec_put(fields[1], i, v[1]), vec_put(fields[2], i, v[2])>>
\* first.put(i, v.first); second.put(i, v.second)
pair_put(fields, i, v) == <<vec_put(fields[1], i, v[1]), vec_put(fields[2], i, v[2])>>
\* detail::put1<I>(t, i, v): std::get<I>(t).put(i, std::get<I>(v)), returns void
put1(I, t, i, v) == [t EXCEPT ![I] = vec_put(t[I], i, v[I])]
\* auto l = { detail::put1<Is>(data, i, v)... }
tuple_put_is_well_formed == list_element_is_object("void")
RECURSIVE tuple_put_from(_, _, _, _)
tuple_put_from(data, I, i, v) ==
  IF I > Len(data) THEN data ELSE tuple_put_from(put1(I, data, i, v), I + 1, i, v)
tuple_put(data, i, v) == tuple_put_from(data, 1, i, v)

composite_get_is_well_formed(c) ==
  IF c.kind = "pair" THEN pair_get_is_well_formed(c.S, c.T) ELSE TRUE
composite_get(c, i) ==
  CASE c.kind = "complex" -> complex_get(c.fields, i)
    [] c.kind = "pair" -> pair_get(c.fields, i)
    [] c.kind = "tuple" -> tuple_get(c.fields, i)
composite_put_is_well_formed(c) ==
  CASE c.kind = "complex" -> complex_put_is_well_formed
    [] c.kind = "pair" -> TRUE
    [] c.kind = "tuple" -> tuple_put_is_well_formed
composite_put(c, i, v) ==
  CASE c.kind = "complex" -> complex_put(c.fields, i, v)
    [] c.kind = "pair" -> pair_put(c.fields, i, v)
    [] c.kind = "tuple" -> tuple_put(c.fields, i, v)

(***************************************************************************)
(* Specification SpecComposite: one put and then one get, or one get, on a *)
(* composite vector held in gv.                                            *)
(***************************************************************************)
CompositeKinds == {"complex", "pair", "tuple"}
\* the namespace of an element type: int and float are fundamental,
\* std::complex and std::string are of namespace std
ElementNamespaces == {"fundamental", "std"}
Aggregates == Val \X Val
CompositeVectors ==
  {[kind |-> k, S |-> S, T |-> T, fields |-> <<a, b>>] :
     k \in CompositeKinds, S \in ElementNamespaces, T \in ElementNamespaces,
     a \in ValueVectors, b \in ValueVectors}

CompositeFrame == UNCHANGED <<rts_64, mem, ptrs, ndebug, aborted, arr, m, p, q, visited>>

InitComposite ==
  /\ ndebug = FALSE
  /\ rts_64 = TRUE
  /\ mem = no_memory
  /\ ptrs = vec_default
  /\ aborted = FALSE
  /\ arr = [n \in 0..(NVec - 1) |-> vec_bool_default]
  /\ m = vec_bool_default
  /\ gv \in CompositeVectors
  /\ p = make_vptr(0, 0)
  /\ q = make_vptr(0, 0)
  /\ pc = "ready"
  /\ visited = <<>>
  /\ last = NoOp

\* gv.put(i, a); a program holding a put that is not well formed is not
\* built, and nothing is stored
CompositePut(i, a) ==
  /\ pc = "ready"
  /\ pc' = "put"
  /\ IF composite_put_is_well_formed(gv)
       THEN gv' = [gv EXCEPT !.fields = composite_put(gv, i, a)]
       ELSE gv' = gv
  /\ last' = [op |-> "put", built |-> composite_put_is_well_formed(gv),
              i |-> i, a |-> a, before |-> gv.fields]
  /\ CompositeFrame

\* ret = gv.get(i), after a put or on the vector as constructed
CompositeGet(i) ==
  /\ pc \in {"ready", "put"}
  /\ pc' = "got"
  /\ last' = [op |-> "get", built |-> composite_get_is_well_formed(gv), i |-> i,
              ret |-> IF composite_get_is_well_formed(gv)
                        THEN composite_get(gv, i) ELSE <<>>,
              put |-> last]
  /\ UNCHANGED gv
  /\ CompositeFrame

NextComposite ==
  \/ \E i \in Lanes, a \in Aggregates : CompositePut(i, a)
  \/ \E i \in Lanes : CompositeGet(i)

SpecComposite == InitComposite /\ [][NextComposite]_vars

\* C27: on every composite vector, put(i, a) stores component k of a into
\* lane i of field k and nothing else; afterwards get(i) is a, get(j) for
\* j # i is what it was, and get(i) is always the aggregate of the fields'
\* get(i).
C27_CompositePutGet ==
  /\ last.op = "put" =>
       /\ last.built
       /\ \A k \in 1..2 : \A j \in Lanes :
            vec_get(gv.fields[k], j)
              = IF j = last.i THEN last.a[k] ELSE vec_get(last.before[k], j)
  /\ last.op = "get" =>
       /\ last.built
       /\ last.ret = <<vec_get(gv.fields[1], last.i), vec_get(gv.fields[2], last.i)>>
       /\ last.put.op = "put" =>
            last.ret = IF last.i = last.put.i
                         THEN last.put.a
                         ELSE <<vec_get(last.put.before[1], last.i),
                                vec_get(last.put.before[2], last.i)>>
\* the part of C27 that holds: put on pairs, get on complex and tuple
\* vectors and on pairs with an element type of namespace std
C27_WhereBuilt ==
  /\ (last.op = "put" /\ gv.kind = "pair") =>
       /\ last.built
       /\ \A k \in 1..2 : \A j \in Lanes :
            vec_get(gv.fields[k], j)
              = IF j = last.i THEN last.a[k] ELSE vec_get(last.before[k], j)
  /\ (last.op = "get" /\ (gv.kind = "pair" => "std" \in {gv.S, gv.T})) =>
       /\ last.built
       /\ last.ret = <<vec_get(gv.fields[1], last.i), vec_get(gv.fields[2], last.i)>>
       /\ (last.put.op = "put" /\ last.put.built) =>
            last.ret = IF last.i = last.put.i
                         THEN last.put.a
                         ELSE <<vec_get(last.put.before[1], last.i),
                                vec_get(last.put.before[2], last.i)>>

(***************************************************************************)
(* Construction by value of plain and composite vectors.  A plain vector   *)
(* is held as the one-field sequence of its data.                          *)
(***************************************************************************)
\* vec(const T & u, detail::step_t) noexcept(noexcept(std::declval<T>++) ...):
\* std::declval<T> without a call names a function
step_is_well_formed == denotes_object("function")
\* vec(const vec<T,A> & re = vec<T,A>(), const vec<T,A> & im = vec<T,A>())
complex_default == <<vec_default, vec_default>>
\* vec(const std::complex<T> & that): real(that.real), imag(that.imag), where
\* that.real and that.imag name member functions
complex_broadcast_is_well_formed == denotes_object("member function")
complex_broadcast(that) == <<vec_broadcast(that[1]), vec_broadcast(that[2])>>
\* vec() = default: first and second default constructed
pair_default == <<vec_default, vec_default>>
\* vec(const std::pair<S,T> & that): first(that.first), second(that.second)
pair_broadcast(that) == <<vec_broadcast(that[1]), vec_broadcast(that[2])>>
\* vec() = default: data default constructed
tuple_default == <<vec_default, vec_default>>
\* vec(std::tuple<Ts...> b): data() -- b is not used
tuple_broadcast(b) == <<vec_default, vec_default>>

VectorKinds == {"plain"} \cup CompositeKinds
no_vector == <<>>
construct_default(k) ==
  CASE k = "plain" -> <<vec_default>>
    [] k = "complex" -> complex_default
    [] k = "pair" -> pair_default
    [] k = "tuple" -> tuple_default
broadcast_is_well_formed(k) ==
  IF k = "complex" THEN complex_broadcast_is_well_formed ELSE TRUE
construct_broadcast(k, t) ==
  CASE k = "plain" -> <<vec_broadcast(t[1])>>
    [] k = "complex" -> complex_broadcast(t)
    [] k = "pair" -> pair_broadcast(t)
    [] k = "tuple" -> tuple_broadcast(t)

(***************************************************************************)
(* Specification SpecCtor: a vector is constructed into gv, then one of    *)
(* its lanes is read through the get of its fields.                        *)
(***************************************************************************)
\* the values t of kind k: a scalar, or an aggregate of two components
CtorValues(k) == IF k = "plain" THEN {<<x>> : x \in OpScalars}
                                ELSE OpScalars \X OpScalars

CtorFrame == UNCHANGED <<rts_64, mem, ptrs, ndebug, aborted, arr, m, p, q>>

InitCtor ==
  /\ ndebug = FALSE
  /\ rts_64 = TRUE
  /\ mem = no_memory
  /\ ptrs = vec_default
  /\ aborted = FALSE
  /\ arr = [n \in 0..(NVec - 1) |-> vec_bool_default]
  /\ m = vec_bool_default
  /\ gv = no_vector
  /\ p = make_vptr(0, 0)
  /\ q = make_vptr(0, 0)
  /\ pc = "ready"
  /\ visited = <<>>
  /\ last = NoOp

\* vec<T,A> gv; for T plain, complex, pair or tuple
ValueDefault(k) ==
  /\ pc = "ready"
  /\ pc' = "constructed"
  /\ gv' = construct_default(k)
  /\ last' = [op |-> "default", kind |-> k, built |-> TRUE]
  /\ UNCHANGED visited
  /\ CtorFrame

\* vec<T,A> gv(t); a program holding a constructor call that is not well
\* formed is not built, and there is no vector
ValueBroadcast(k, t) ==
  /\ pc = "ready"
  /\ pc' = "constructed"
  /\ gv' = IF broadcast_is_well_formed(k) THEN construct_broadcast(k, t) ELSE no_vector
  /\ last' = [op |-> "broadcast", kind |-> k, built |-> broadcast_is_well_formed(k),
              t |-> t]
  /\ UNCHANGED visited
  /\ CtorFrame

\* vec<T,A> gv(b, detail::step_tag), T plain
ValueStep(b) ==
  /\ pc = "ready"
  /\ pc' = "constructed"
  /\ gv' = IF step_is_well_formed THEN <<vec_step(b)>> ELSE no_vector
  /\ last' = [op |-> "step", kind |-> "plain", built |-> step_is_well_formed,
              t |-> <<b>>]
  /\ UNCHANGED visited
  /\ CtorFrame

\* the get(i) of each field of the constructed vector
ReadLane(i) ==
  /\ pc = "constructed"
  /\ last.built
  /\ pc' = "read"
  /\ visited' = <<i, [k \in DOMAIN gv |-> vec_get(gv[k], i)]>>
  /\ UNCHANGED <<gv, last>>
  /\ CtorFrame

NextCtor ==
  \/ \E k \in VectorKinds : ValueDefault(k)
  \/ \E k \in VectorKinds : \E t \in CtorValues(k) : ValueBroadcast(k, t)
  \/ \E b \in OpScalars : ValueStep(b)
  \/ \E i \in Lanes : ReadLane(i)

SpecCtor == InitCtor /\ [][NextCtor]_vars

\* C28: default construction gives the zero element in every lane,
\* broadcast construction from t gives get(i) = t in every lane, for plain
\* and composite vectors alike, and step construction from b gives
\* get(i) = b + i in every lane.
C28_ConstructorsFillEveryLane ==
  /\ last.op \in {"default", "broadcast", "step"} => last.built
  /\ last.op = "default" =>
       \A k \in DOMAIN gv : \A i \in Lanes : vec_get(gv[k], i) = 0
  /\ last.op = "broadcast" =>
       \A k \in DOMAIN last.t : \A i \in Lanes : vec_get(gv[k], i) = last.t[k]
  /\ last.op = "step" =>
       \A i \in Lanes : vec_get(gv[1], i) = last.t[1] + i
  /\ (last.op = "broadcast" /\ visited # <<>>) => visited[2] = last.t
\* the part of C28 that holds: default construction of every kind and
\* broadcast construction of plain and pair vectors
C28_DefaultAndPlainPairBroadcast ==
  /\ last.op = "default" =>
       /\ last.built
       /\ \A k \in DOMAIN gv : \A i \in Lanes : vec_get(gv[k], i) = 0
  /\ (last.op = "broadcast" /\ last.kind \in {"plain", "pair"}) =>
       /\ last.built
       /\ \A k \in DOMAIN last.t : \A i \in Lanes : vec_get(gv[k], i) = last.t[k]
       /\ visited # <<>> => visited[2] = last.t

(***************************************************************************)
(* The value-returning masked load, load(pointers, mask), and the          *)
(* specification SpecMaskedLoad of one call of it on the pointer vector    *)
(* ptrs and the mask m.                                                    *)
(***************************************************************************)
\* the numbers of arguments the static members of a loader take: load and
\* store take two, load_masked and store_masked three
loader_members ==
  [load |-> {2}, load_masked |-> {3}, store |-> {2}, store_masked |-> {3}]
loader_has(name, arguments) == arguments \in loader_members[name]

\* load(pointers, mask): the noexcept-specifier passes the prvalue vec<T,A>()
\* to load_masked(vector & u, ...), and the body calls
\* detail::loader<T,A>::load(result, pointers, mask) with three arguments
load_under_mask_is_well_formed ==
  /\ binds_nonconst_ref("prvalue")
  /\ loader_has("load", 3)
\* vec<T,A> result; the loader's masked load into result; return result
load_under_mask(memory, pointers, mask) ==
  base_loader_load_masked(vec_default, memory, pointers, mask)

MaskedLoadFrame == UNCHANGED <<rts_64, mem, ptrs, ndebug, aborted, arr, m, gv, p, q, visited>>

InitMaskedLoad ==
  /\ ndebug = FALSE
  /\ rts_64 = TRUE
  /\ mem = initial_memory
  /\ ptrs \in PointerVectors
  /\ aborted = FALSE
  /\ arr = [n \in 0..(NVec - 1) |-> vec_bool_default]
  /\ m \in Operands
  /\ gv = vec_default
  /\ p = make_vptr(0, 0)
  /\ q = make_vptr(0, 0)
  /\ pc = "ready"
  /\ visited = <<>>
  /\ last = NoOp

\* ret = load(ptrs, m); a program holding the call is not built, and
\* nothing is returned
LoadUnderMask ==
  /\ pc = "ready"
  /\ pc' = "done"
  /\ last' = [op |-> "load_under_mask", built |-> load_under_mask_is_well_formed,
              mem0 |-> mem, v |-> ptrs, mask |-> m,
              ret |-> IF load_under_mask_is_well_formed
                        THEN load_under_mask(mem, ptrs, m) ELSE <<>>]
  /\ MaskedLoadFrame

NextMaskedLoad == LoadUnderMask

SpecMaskedLoad == InitMaskedLoad /\ [][NextMaskedLoad]_vars

\* C30: load(pointers, mask) returns a vector whose lane i is *pointers[i]
\* where mask[i] is set and the zero element where mask[i] is clear; memory,
\* pointers and mask are unchanged.
C30_MaskedLoadReturnsActiveLanes ==
  last.op = "load_under_mask" =>
    /\ last.built
    /\ \A i \in Lanes :
         vec_get(last.ret, i)
           = IF vec_bool_get(last.mask, i) THEN last.mem0[vec_get(last.v, i)] ELSE 0
    /\ mem = last.mem0
    /\ ptrs = last.v
    /\ m = last.mask

====
